---- MODULE Spec2Model ----
(***************************************************************************)
(* mamegrep: the cursor / navigation state machine (src/app.rs,            *)
(* AppState), the event loop and the render pass (App::run, App::render,   *)
(* Tree::render), the canvas it draws on (src/canvas.rs: Token, FrameLine, *)
(* Frame, Canvas), the search (src/git.rs: GrepOptions::call and the       *)
(* parsers of git's output), the keys of the widgets                       *)
(* (App::handle_key_event, MainWidget, SearchPatternInputWidget) and the   *)
(* command editor (src/widget_command_editor.rs).                          *)
(*                                                                         *)
(* A path is a number of 1..MaxFile: the order of the numbers is the order *)
(* of the BTreeMap's PathBuf keys.  A line number is a number of           *)
(* 1..MaxLine (NonZeroUsize).  None (Option::None) is 0, which is neither. *)
(* search_result is the `files` map of SearchResult: a function from the   *)
(* paths that have hits to the Vec of its lines, each [number, matched].   *)
(*                                                                         *)
(* A panic (todo!(), expect) unwinds out of App::run: the model sets       *)
(* panicked, keeps what the handler had written so far, and stops.         *)
(***************************************************************************)
EXTENDS Integers, Sequences, FiniteSets, TLC

\* Paths are 1..MaxFile.
MaxFile == 3
\* Line numbers of the searches of WalkSpec are 1..MaxLine.
MaxLine == 3
\* A file of the searches of Spec has the lines 1..FileLen, hit or context.
FileLen == 2

None == 0

Paths == 1..MaxFile
LineNumbers == 1..MaxLine

VARIABLES
    search_result,  \* AppState.search_result.files
    cursor,         \* AppState.cursor: [file, line_number]
    collapsed,      \* AppState.collapsed
    dirty,          \* AppState.dirty
    panicked,       \* the process has panicked (todo!(), expect)
    op,             \* the handler that ran last
    prev,           \* cursor and collapsed set before that handler ran
    phase,          \* position of the walk of WalkSpec
    visited,        \* cursors seen by the walk's cursor_down steps
    visitedUp,      \* cursors seen by the walk's cursor_up steps
    size,           \* Terminal.size: [rows, cols]
    frame_marks,    \* rows of the last drawn frame that carry a cursor marker
    rendered,       \* the last event ended in a render pass that drew a frame
    canvas,         \* a Canvas: [frame, frame_row_offset, cursor, col_offset]
    line,           \* a FrameLine drawn on directly: its tokens
    drawn,          \* the last draw call: its arguments, what it drew on
    call,           \* the arguments of a function called on its own
    ret             \* what that call returned

vars == <<search_result, cursor, collapsed, dirty, panicked, op, prev,
          phase, visited, visitedUp, size, frame_marks, rendered,
          canvas, line, drawn, call, ret>>

\* TerminalSize::EMPTY
EMPTY == [rows |-> 0, cols |-> 0]

\* The terminal as a specification without rendering carries it.
NoTerminal ==
    /\ size = EMPTY
    /\ frame_marks = {}
    /\ rendered = FALSE

\* No canvas is under construction.
NoCanvas ==
    /\ canvas = << >>
    /\ line = << >>
    /\ drawn = << >>

\* No function is called on its own.
NoCall ==
    /\ call = << >>
    /\ ret = << >>

\* The cursor walk of WalkSpec is off.
NoWalk ==
    /\ phase = "off"
    /\ visited = << >>
    /\ visitedUp = << >>

termVars == <<size, frame_marks, rendered>>
canvasVars == <<canvas, line, drawn>>
callVars == <<call, ret>>
walkVars == <<phase, visited, visitedUp>>

----------------------------------------------------------------------------
(* Search results: what `git grep -n --heading -C n` can print.            *)

\* The elements of the set S of numbers, in ascending order.
RECURSIVE Ascending(_)
Ascending(S) ==
    IF S = {} THEN <<>>
    ELSE LET m == CHOOSE x \in S : \A y \in S : x <= y
         IN <<m>> \o Ascending(S \ {m})

\* A file's lines: ascending line numbers, at least one of them a hit.
FileLines ==
    { [i \in 1..Cardinality(S) |->
          [number |-> Ascending(S)[i], matched |-> Ascending(S)[i] \in H]] :
      <<S, H>> \in { p \in (SUBSET LineNumbers) \X (SUBSET LineNumbers) :
                       p[2] # {} /\ p[2] \subseteq p[1] } }

\* Every search result over Paths with these lines.
Trees == UNION { [D -> FileLines] : D \in SUBSET Paths }

\* The files all of whose lines 1..FileLen the search printed.
WholeFileLines ==
    { [i \in 1..FileLen |-> [number |-> i, matched |-> i \in H]] :
      H \in (SUBSET (1..FileLen)) \ {{}} }

SmallTrees == UNION { [D -> WholeFileLines] : D \in SUBSET Paths }

Keys(files) == DOMAIN files

Max(S) == CHOOSE x \in S : \A y \in S : y <= x
Min(S) == CHOOSE x \in S : \A y \in S : x <= y

DefaultCursor == [file |-> None, line_number |-> None]

\* The AppState the operations work on, as one value.
State == [search_result |-> search_result, cursor |-> cursor,
          collapsed |-> collapsed, dirty |-> dirty, panicked |-> panicked]

Panic(s) == [s EXCEPT !.panicked = TRUE]

----------------------------------------------------------------------------
(* The operations of AppState, each a function of the state.               *)

\* lines.iter().find(|l| l.matched): index of the first hit line, 0 if none
FirstMatched(lines) ==
    LET I == { i \in 1..Len(lines) : lines[i].matched }
    IN IF I = {} THEN 0 ELSE Min(I)

\* lines.iter().rev().find(|l| l.matched)
LastMatched(lines) ==
    LET I == { i \in 1..Len(lines) : lines[i].matched }
    IN IF I = {} THEN 0 ELSE Max(I)

\* for line in lines { if !line.matched { continue; } if n < line.number .. }:
\* index of the first hit line after line number n, 0 if the loop ends
NextMatched_any(lines, n) ==
    LET I == { i \in 1..Len(lines) : n < lines[i].number }
    IN IF I = {} THEN 0 ELSE Min(I)

NextMatched(lines, n) ==
    LET I == { i \in 1..Len(lines) : lines[i].matched /\ n < lines[i].number }
    IN IF I = {} THEN 0 ELSE Min(I)

\* for line in lines.iter().rev() { .. if n > line.number .. }
PrevMatched(lines, n) ==
    LET I == { i \in 1..Len(lines) : lines[i].matched /\ n > lines[i].number }
    IN IF I = {} THEN 0 ELSE Max(I)

toggle_expansion_insert(s) ==
    IF s.panicked THEN s
    ELSE IF s.cursor.line_number # None THEN s
    ELSE IF s.cursor.file = None THEN s
    ELSE [s EXCEPT !.collapsed = s.collapsed \cup {s.cursor.file},
                   !.dirty = TRUE]

toggle_expansion(s) ==
    IF s.panicked THEN s
    ELSE IF s.cursor.line_number # None THEN s
    ELSE IF s.cursor.file = None THEN s
    ELSE [s EXCEPT !.collapsed =
                      IF s.cursor.file \in s.collapsed
                      THEN s.collapsed \ {s.cursor.file}
                      ELSE s.collapsed \cup {s.cursor.file},
                   !.dirty = TRUE]

toggle_all_expansion(s) ==
    IF s.panicked THEN s
    ELSE IF s.cursor.line_number # None THEN Panic(s)    \* todo!()
    ELSE IF \A file \in Keys(s.search_result) : file \in s.collapsed
    THEN [s EXCEPT !.collapsed = {}, !.dirty = TRUE]
    ELSE [s EXCEPT !.collapsed = s.collapsed \cup Keys(s.search_result),
                   !.dirty = TRUE]

cursor_left_reset(s) ==
    IF s.panicked THEN s
    ELSE [s EXCEPT !.cursor = DefaultCursor, !.dirty = TRUE]

cursor_left(s) ==
    IF s.panicked THEN s
    ELSE [s EXCEPT !.cursor.line_number = None, !.dirty = TRUE]

cursor_right(s) ==
    IF s.panicked THEN s
    ELSE IF Keys(s.search_result) = {} \/ s.cursor.line_number # None THEN s
    ELSE IF s.cursor.file = None THEN Panic(s)
    ELSE IF s.cursor.file \notin Keys(s.search_result) THEN Panic(s)
    ELSE LET lines == s.search_result[s.cursor.file]
             i == FirstMatched(lines)
         IN IF i = 0 THEN Panic(s)
            ELSE [s EXCEPT !.cursor.line_number = lines[i].number,
                           !.dirty = TRUE]

cursor_up_file_first(s) ==
    IF s.panicked THEN s
    ELSE IF s.cursor.file = None THEN Panic(s)
    ELSE LET before == { k \in Keys(s.search_result) : k < s.cursor.file }
         IN IF before = {} THEN s
            ELSE [s EXCEPT !.cursor.file = Min(before), !.dirty = TRUE]

cursor_up_file(s) ==
    IF s.panicked THEN s
    ELSE IF s.cursor.file = None THEN Panic(s)
    ELSE LET before == { k \in Keys(s.search_result) : k < s.cursor.file }
         IN IF before = {} THEN s
            ELSE [s EXCEPT !.cursor.file = Max(before), !.dirty = TRUE]

cursor_down_file_nth0(s) ==
    IF s.panicked THEN s
    ELSE IF s.cursor.file = None THEN Panic(s)
    ELSE LET from == Ascending({ k \in Keys(s.search_result) : k >= s.cursor.file })
         IN IF Len(from) < 1 THEN s
            ELSE [s EXCEPT !.cursor.file = from[1], !.dirty = TRUE]

cursor_down_file(s) ==
    IF s.panicked THEN s
    ELSE IF s.cursor.file = None THEN Panic(s)
    ELSE LET from == Ascending({ k \in Keys(s.search_result) : k >= s.cursor.file })
         IN IF Len(from) < 2 THEN s
            ELSE [s EXCEPT !.cursor.file = from[2], !.dirty = TRUE]

RECURSIVE cursor_up(_)
cursor_up_line(s) ==
    IF s.panicked THEN s
    ELSE IF s.cursor.file = None \/ s.cursor.line_number = None THEN Panic(s)
    ELSE IF s.cursor.file \notin Keys(s.search_result) THEN Panic(s)
    ELSE LET lines == s.search_result[s.cursor.file]
             line_number == s.cursor.line_number
             i == PrevMatched(lines, line_number)
         IN IF i # 0
            THEN [s EXCEPT !.cursor.line_number = lines[i].number,
                           !.dirty = TRUE]
            ELSE LET current == s.cursor
                     s3 == cursor_right(cursor_up(cursor_left(s)))
                 IN IF s3.panicked THEN s3
                    ELSE IF current.file = s3.cursor.file
                    THEN [s3 EXCEPT !.cursor = current]
                    ELSE IF s3.cursor.file = None THEN Panic(s3)
                    ELSE IF s3.cursor.file \notin Keys(s3.search_result)
                    THEN Panic(s3)
                    ELSE LET ls == s3.search_result[s3.cursor.file]
                             j == LastMatched(ls)
                         IN [s3 EXCEPT !.cursor.line_number =
                                 IF j = 0 THEN None ELSE ls[j].number]

cursor_up(s) ==
    IF s.panicked THEN s
    ELSE IF Keys(s.search_result) = {} THEN s
    ELSE IF s.cursor.line_number # None THEN cursor_up_line(s)
    ELSE cursor_up_file(s)

RECURSIVE cursor_down(_)
cursor_down_line(s) ==
    IF s.panicked THEN s
    ELSE IF s.cursor.file = None \/ s.cursor.line_number = None THEN Panic(s)
    ELSE IF s.cursor.file \notin Keys(s.search_result) THEN Panic(s)
    ELSE LET lines == s.search_result[s.cursor.file]
             line_number == s.cursor.line_number
             i == NextMatched(lines, line_number)
         IN IF i # 0
            THEN [s EXCEPT !.cursor.line_number = lines[i].number,
                           !.dirty = TRUE]
            ELSE LET current == s.cursor
                     s3 == cursor_right(cursor_down(cursor_left(s)))
                 IN IF s3.panicked THEN s3
                    ELSE IF current.file = s3.cursor.file
                    THEN [s3 EXCEPT !.cursor = current]
                    ELSE s3

cursor_down(s) ==
    IF s.panicked THEN s
    ELSE IF Keys(s.search_result) = {} THEN s
    ELSE IF s.cursor.line_number # None THEN cursor_down_line(s)
    ELSE cursor_down_file(s)

\* lines.binary_search_by_key(&n, |x| x.number) on ascending numbers:
\* 0 when a line has the number (Ok), else 1 + the insertion index (Err(i)).
BinarySearchErr(lines, n) ==
    IF \E i \in 1..Len(lines) : lines[i].number = n THEN 0
    ELSE 1 + Cardinality({ i \in 1..Len(lines) : lines[i].number < n })

\* range(..f).rev().chain(range(f..)).next(), None as 0
NearestFile_norev(files, f) ==
    LET before == { k \in Keys(files) : k < f }
        from == { k \in Keys(files) : k >= f }
    IN IF before # {} THEN Min(before)
       ELSE IF from # {} THEN Min(from)
       ELSE None

NearestFile(files, f) ==
    LET before == { k \in Keys(files) : k < f }
        from == { k \in Keys(files) : k >= f }
    IN IF before # {} THEN Max(before)
       ELSE IF from # {} THEN Min(from)
       ELSE None

reset_cursor(s) ==
    IF s.panicked THEN s
    ELSE IF Keys(s.search_result) = {} THEN [s EXCEPT !.cursor = DefaultCursor]
    ELSE IF s.cursor.line_number # None THEN Panic(s)    \* todo!()
    ELSE LET files == s.search_result
             f == s.cursor.file
             s1 == IF f # None
                   THEN IF f \notin Keys(files)
                        THEN [s EXCEPT !.cursor.line_number = None,
                                       !.cursor.file = NearestFile(files, f)]
                        ELSE s
                   ELSE [s EXCEPT !.cursor.file = Min(Keys(files))]
         IN IF s1.cursor.file = None THEN Panic(s1)
            ELSE IF s1.cursor.line_number = None THEN s1
            ELSE IF s1.cursor.file \notin Keys(files) THEN Panic(s1)
            ELSE LET lines == files[s1.cursor.file]
                     e == BinarySearchErr(lines, s1.cursor.line_number)
                 IN IF e = 0 THEN s1
                    ELSE IF Len(lines) = 0 THEN Panic(s1)
                    ELSE [s1 EXCEPT !.cursor.line_number =
                              IF e <= Len(lines) THEN lines[e].number
                              ELSE lines[Len(lines)].number]

\* AppState::regrep with the search returning the files `t`.
regrep(s, t) ==
    IF s.panicked THEN s
    ELSE reset_cursor([s EXCEPT !.search_result = t, !.dirty = TRUE])

\* App::render as far as AppState goes: the frame is drawn, dirty is cleared.
render(s) ==
    IF s.panicked THEN s ELSE [s EXCEPT !.dirty = FALSE]

\* The tail of App::handle_key_event: render when the handler left dirty set.
handle_key_event(s) ==
    IF s.dirty THEN render(s) ELSE s

----------------------------------------------------------------------------
(* The key handlers as actions.                                            *)

Init ==
    /\ search_result = << >>
    /\ cursor = DefaultCursor
    /\ collapsed = {}
    /\ dirty = FALSE
    /\ panicked = FALSE
    /\ op = "new"
    /\ prev = [cursor |-> DefaultCursor, collapsed |-> {}]
    /\ phase = "off"
    /\ visited = << >>
    /\ visitedUp = << >>
    /\ NoTerminal
    /\ NoCanvas
    /\ NoCall

\* The handler `name` takes the state to `s`.
Handle(name, s) ==
    \E t \in {handle_key_event(s)} :
       /\ search_result' = t.search_result
       /\ cursor' = t.cursor
       /\ collapsed' = t.collapsed
       /\ dirty' = t.dirty
       /\ panicked' = t.panicked
       /\ op' = name
       /\ prev' = [cursor |-> cursor, collapsed |-> collapsed]
       /\ UNCHANGED <<termVars, canvasVars, callVars>>

Regrep ==
    /\ ~panicked
    /\ \E t \in SmallTrees : Handle("regrep", regrep(State, t))
    /\ UNCHANGED <<phase, visited, visitedUp>>

CursorUp ==
    /\ ~panicked
    /\ Handle("cursor_up", cursor_up(State))
    /\ UNCHANGED <<phase, visited, visitedUp>>

CursorDown ==
    /\ ~panicked
    /\ Handle("cursor_down", cursor_down(State))
    /\ UNCHANGED <<phase, visited, visitedUp>>

CursorLeft ==
    /\ ~panicked
    /\ Handle("cursor_left", cursor_left(State))
    /\ UNCHANGED <<phase, visited, visitedUp>>

CursorRight ==
    /\ ~panicked
    /\ Handle("cursor_right", cursor_right(State))
    /\ UNCHANGED <<phase, visited, visitedUp>>

ToggleExpansion ==
    /\ ~panicked
    /\ Handle("toggle_expansion", toggle_expansion(State))
    /\ UNCHANGED <<phase, visited, visitedUp>>

ToggleAllExpansion ==
    /\ ~panicked
    /\ Handle("toggle_all_expansion", toggle_all_expansion(State))
    /\ UNCHANGED <<phase, visited, visitedUp>>

Next ==
    \/ Regrep
    \/ CursorUp
    \/ CursorDown
    \/ CursorLeft
    \/ CursorRight
    \/ ToggleExpansion
    \/ ToggleAllExpansion

Spec == Init /\ [][Next]_vars

----------------------------------------------------------------------------
(* The walk: one search, descend into the first file, cursor_down until it *)
(* moves no more, then cursor_up until it moves no more.                   *)

WalkInit ==
    /\ search_result = << >>
    /\ cursor = DefaultCursor
    /\ collapsed = {}
    /\ dirty = FALSE
    /\ panicked = FALSE
    /\ op = "new"
    /\ prev = [cursor |-> DefaultCursor, collapsed |-> {}]
    /\ phase = "new"
    /\ visited = << >>
    /\ visitedUp = << >>
    /\ NoTerminal
    /\ NoCanvas
    /\ NoCall

WalkSearch ==
    /\ ~panicked
    /\ phase = "new"
    /\ \E t \in Trees \ {<< >>} : Handle("regrep", regrep(State, t))
    /\ phase' = "file"
    /\ UNCHANGED <<visited, visitedUp>>

\* 'T' on the file list: the walk also runs over collapsed files.
WalkToggleAll ==
    /\ ~panicked
    /\ phase = "file"
    /\ collapsed = {}
    /\ Handle("toggle_all_expansion", toggle_all_expansion(State))
    /\ UNCHANGED <<phase, visited, visitedUp>>

WalkRight ==
    /\ ~panicked
    /\ phase = "file"
    /\ Handle("cursor_right", cursor_right(State))
    /\ phase' = "down"
    /\ visited' = <<cursor'>>
    /\ UNCHANGED visitedUp

WalkDown ==
    /\ ~panicked
    /\ phase = "down"
    /\ Handle("cursor_down", cursor_down(State))
    /\ IF cursor' = cursor
       THEN /\ phase' = "up"
            /\ visitedUp' = <<cursor>>
            /\ UNCHANGED visited
       ELSE /\ visited' = Append(visited, cursor')
            /\ UNCHANGED <<phase, visitedUp>>

WalkUp ==
    /\ ~panicked
    /\ phase = "up"
    /\ Handle("cursor_up", cursor_up(State))
    /\ IF cursor' = cursor
       THEN /\ phase' = "done"
            /\ UNCHANGED <<visited, visitedUp>>
       ELSE /\ visitedUp' = Append(visitedUp, cursor')
            /\ UNCHANGED <<phase, visited>>

WalkNext ==
    \/ WalkSearch
    \/ WalkToggleAll
    \/ WalkRight
    \/ WalkDown
    \/ WalkUp

WalkSpec == WalkInit /\ [][WalkNext]_vars

----------------------------------------------------------------------------
(* What the claims speak of.                                               *)

FileLevel(c) == c.file # None /\ c.line_number = None
LineLevel(c) == c.line_number # None

\* The line numbers of the hit lines of file f.
HitNumbers(files, f) ==
    { files[f][i].number : i \in { j \in 1..Len(files[f]) : files[f][j].matched } }

\* The hit lines of the files fs (ascending paths), as cursors, in
\* ascending (path, line number) order.
RECURSIVE HitsOf(_, _)
HitsOf(files, fs) ==
    IF fs = << >> THEN << >>
    ELSE LET f == Head(fs)
             ns == Ascending(HitNumbers(files, f))
         IN [i \in 1..Len(ns) |-> [file |-> f, line_number |-> ns[i]]]
            \o HitsOf(files, Tail(fs))

HitSeq(files) == HitsOf(files, Ascending(Keys(files)))

Reverse(q) == [i \in 1..Len(q) |-> q[Len(q) + 1 - i]]

IsPrefix(p, q) == Len(p) <= Len(q) /\ \A i \in 1..Len(p) : p[i] = q[i]

C3_FileLevelMove ==
    (op \in {"cursor_down", "cursor_up"} /\ FileLevel(prev.cursor)) =>
        LET f == prev.cursor.file
            beyond == IF op = "cursor_down"
                      THEN { k \in Keys(search_result) : k > f }
                      ELSE { k \in Keys(search_result) : k < f }
        IN /\ ~panicked
           /\ cursor.line_number = None
           /\ cursor.file = IF beyond = {} THEN f
                            ELSE IF op = "cursor_down" THEN Min(beyond)
                            ELSE Max(beyond)

\* cursor_up from the last of three files lands on the middle one.
C3_Witness ==
    /\ op = "cursor_up"
    /\ FileLevel(prev.cursor)
    /\ Keys(search_result) = Paths
    /\ prev.cursor.file = MaxFile
    /\ cursor = [file |-> MaxFile - 1, line_number |-> None]

\* C4: cursor_right at FileLevel on a collapsed file removes the file from
\* the collapsed set and moves the cursor to the file's first hit line.
C4_RightUncollapses ==
    (op = "cursor_right" /\ FileLevel(prev.cursor)
        /\ prev.cursor.file \in prev.collapsed) =>
        /\ ~panicked
        /\ prev.cursor.file \notin collapsed
        /\ cursor = [file |-> prev.cursor.file,
                     line_number |->
                         Min(HitNumbers(search_result, prev.cursor.file))]

\* C5: cursor_left yields FileLevel on the same file from LineLevel, leaves
\* the cursor as it is at FileLevel, and changes neither the collapsed set
\* nor the search result.
C5_CursorLeft ==
    [][op' = "cursor_left" =>
          /\ ~panicked'
          /\ cursor' = [file |-> cursor.file, line_number |-> None]
          /\ LineLevel(cursor) => FileLevel(cursor')
          /\ ~LineLevel(cursor) => cursor' = cursor
          /\ collapsed' = collapsed
          /\ search_result' = search_result]_vars

\* cursor_left from a line of a file, with some file collapsed.
C5_Witness ==
    /\ op = "cursor_left"
    /\ LineLevel(prev.cursor)
    /\ cursor = [file |-> prev.cursor.file, line_number |-> None]
    /\ collapsed # {}

\* C6: toggle_expansion at FileLevel flips the current file's membership in
\* the collapsed set and nothing else; at LineLevel it changes neither the
\* collapsed set nor the cursor.
C6_ToggleExpansion ==
    op = "toggle_expansion" =>
        /\ ~panicked
        /\ cursor = prev.cursor
        /\ FileLevel(prev.cursor) =>
               /\ (prev.cursor.file \in collapsed)
                      = (prev.cursor.file \notin prev.collapsed)
               /\ collapsed \ {prev.cursor.file}
                      = prev.collapsed \ {prev.cursor.file}
        /\ LineLevel(prev.cursor) => collapsed = prev.collapsed

\* toggle_expansion expands the collapsed current file; another stays
\* collapsed.
C6_Witness ==
    /\ op = "toggle_expansion"
    /\ FileLevel(prev.cursor)
    /\ prev.cursor.file \in prev.collapsed
    /\ prev.cursor.file \notin collapsed
    /\ collapsed # {}

\* C7: toggle_all_expansion empties the collapsed set when every eligible
\* file (every file, but the selected one at LineLevel) is collapsed, and
\* otherwise collapses every eligible file.
C7_ToggleAll ==
    op = "toggle_all_expansion" =>
        LET eligible == Keys(search_result)
                          \ (IF LineLevel(prev.cursor)
                             THEN {prev.cursor.file} ELSE {})
        IN /\ ~panicked
           /\ IF eligible \subseteq prev.collapsed
              THEN collapsed = {}
              ELSE eligible \subseteq collapsed

\* C8: reset_cursor at FileLevel on a file absent from the new non-empty
\* result selects the greatest remaining path below the old one, else the
\* smallest above it, at FileLevel.
C8_ResetFileLevelAbsent ==
    (op = "regrep" /\ FileLevel(prev.cursor)
        /\ Keys(search_result) # {}
        /\ prev.cursor.file \notin Keys(search_result)) =>
        LET below == { k \in Keys(search_result) : k < prev.cursor.file }
            above == { k \in Keys(search_result) : k > prev.cursor.file }
        IN /\ ~panicked
           /\ cursor.line_number = None
           /\ cursor.file = IF below # {} THEN Max(below) ELSE Min(above)

\* The last of three files disappears: the middle one is selected, not the
\* first.
C8_Witness ==
    /\ op = "regrep"
    /\ prev.cursor = [file |-> MaxFile, line_number |-> None]
    /\ Keys(search_result) = Paths \ {MaxFile}
    /\ cursor = [file |-> MaxFile - 1, line_number |-> None]

\* C9: reset_cursor at LineLevel on a file absent from the new result, with
\* a smaller and a greater path remaining, ends at FileLevel on the nearest
\* predecessor.
C9_ResetLineLevelAbsent ==
    LET below == { k \in Keys(search_result) : k < prev.cursor.file }
        above == { k \in Keys(search_result) : k > prev.cursor.file }
    IN (op = "regrep" /\ LineLevel(prev.cursor)
           /\ prev.cursor.file \notin Keys(search_result)
           /\ below # {} /\ above # {}) =>
           /\ ~panicked
           /\ cursor = [file |-> Max(below), line_number |-> None]

\* C10: reset_cursor at LineLevel(file, n) with the file still in the new
\* result keeps the file and selects the greatest hit line number <= n, or
\* the file's first hit line when there is none.
C10_ResetLineLevelKept ==
    (op = "regrep" /\ LineLevel(prev.cursor)
        /\ prev.cursor.file \in Keys(search_result)) =>
        LET hits == HitNumbers(search_result, prev.cursor.file)
            upto == { m \in hits : m <= prev.cursor.line_number }
        IN /\ ~panicked
           /\ cursor.file = prev.cursor.file
           /\ cursor.line_number = IF upto # {} THEN Max(upto) ELSE Min(hits)

\* C11: in every state reached by searches and navigation operations the
\* cursor is Empty (file = None) exactly when the result has no files, and
\* otherwise cursor.file is one of the result's files.
C11_CursorFileValid ==
    /\ (cursor.file = None) = (Keys(search_result) = {})
    /\ cursor.file # None => cursor.file \in Keys(search_result)

\* C12: cursor.line_number is Some only if cursor.file is Some, and then
\* (file, line_number) names a hit line of the current result.
C12_CursorLineValid ==
    cursor.line_number # None =>
        /\ cursor.file # None
        /\ cursor.file \in Keys(search_result)
        /\ cursor.line_number \in HitNumbers(search_result, cursor.file)

\* C13: no navigation operation (cursor_up, cursor_down, cursor_left,
\* cursor_right, toggle_expansion, toggle_all_expansion, reset_cursor)
\* panics in any reachable state.
C13_NavigationTotal ==
    op \in {"cursor_up", "cursor_down", "cursor_left", "cursor_right",
            "toggle_expansion", "toggle_all_expansion", "regrep"}
        => ~panicked

----------------------------------------------------------------------------
(* Results as SearchResult::parse builds them from any output text: a      *)
(* heading line inserts the file with no lines, and the numbered lines     *)
(* that follow are pushed onto it, hits (n:text) and context (n-text)      *)
(* alike, so a file may carry no hit line.                                 *)

ParsedFileLines ==
    {<< >>} \cup
    { [i \in 1..FileLen |-> [number |-> i, matched |-> i \in H]] :
      H \in SUBSET (1..FileLen) }

ParsedTrees == UNION { [D -> ParsedFileLines] : D \in SUBSET Paths }

\* The first search of a session, returning any parsed result.
ParsedRegrep ==
    /\ ~panicked
    /\ op = "new"
    /\ \E t \in ParsedTrees : Handle("regrep", regrep(State, t))
    /\ UNCHANGED <<phase, visited, visitedUp>>

ParsedNext ==
    \/ ParsedRegrep
    \/ CursorDown
    \/ CursorRight
    \/ ToggleExpansion

ParsedSpec == Init /\ [][ParsedNext]_vars

\* C14: cursor_right at FileLevel on a file that has no hit lines, or on an
\* empty result, leaves the cursor and the collapsed set unchanged.
C14_RightNoHits ==
    (op = "cursor_right"
        /\ \/ Keys(search_result) = {}
           \/ /\ FileLevel(prev.cursor)
              /\ prev.cursor.file \in Keys(search_result)
              /\ HitNumbers(search_result, prev.cursor.file) = {}) =>
        /\ ~panicked
        /\ cursor = prev.cursor
        /\ collapsed = prev.collapsed

----------------------------------------------------------------------------
(* The render pass (App::render, MainWidget::render, Tree::render) as far  *)
(* as rows go: the canvas cursor's row after each drawln / newline, and    *)
(* the rows on which a cursor marker ("-> ", "---> ") lands in the frame.  *)
(* The legend is left out: render_legend returns at once on a terminal     *)
(* narrower than 22 columns, and MaxCols is below that.                    *)

\* Terminals have up to MaxRows rows
MaxRows == 4
\* and up to MaxCols columns.
MaxCols == 4

\* App.frame_row_start: App::new sets it to 0 and nothing assigns it again.
frame_row_start == 0

\* ContextLines::default(): the context shown around the focused line.
context_lines == 4

\* The sizes a terminal takes: full width and any height, or no width.
TerminalSizes ==
    [rows : 0..MaxRows, cols : {MaxCols}] \cup [rows : {MaxRows}, cols : {0}]

\* TerminalSize::is_empty
is_empty(sz) == sz.rows = 0 \/ sz.cols = 0

\* Canvas::frame_row_range of Canvas::new(offset, sz)
frame_row_range(offset, sz) == offset..(offset + sz.rows - 1)

\* Canvas::draw of a cursor marker with the canvas cursor on d.row:
\* draw_at drops it unless the row is one of the frame's.
draw_marker(d, range) ==
    IF d.row \in range THEN [d EXCEPT !.marks = @ \cup {d.row}] ELSE d

\* Canvas::is_frame_exceeded with the canvas cursor on d.row: the row is
\* at or past the end of the frame's row range.
is_frame_exceeded(d, range) == \A r \in range : r < d.row

\* The highlight of a search whose highlight pass agrees with its text
\* pass: every hit line has an entry, and its texts occur in the line.
\* An entry is TRUE when its texts occur in the line's text in order.
AllFound(files) ==
    [p \in { q \in Keys(files) \X LineNumbers :
               \E j \in 1..Len(files[q[1]]) :
                  /\ files[q[1]][j].number = q[2]
                  /\ files[q[1]][j].matched } |-> TRUE]

\* A lookup that takes a line without a highlight entry for a line whose
\* highlight cannot be found.
matched_columns_strict(highlight, file, n) ==
    /\ <<file, n>> \in DOMAIN highlight
    /\ highlight[<<file, n>>]

\* The highlight loop of Tree::render_lines for line n of `file`: TRUE
\* when every find(matched_text) succeeds, which it does trivially when
\* the line has no entry (unwrap_or(&[])).
matched_columns(highlight, file, n) ==
    IF <<file, n>> \in DOMAIN highlight THEN highlight[<<file, n>>] ELSE TRUE

\* The canvas at the start of a render pass: the cursor on row 0, no
\* marker drawn, and no file or line row emitted past the frame yet.
PassStart == [row |-> 0, marks |-> {}, panicked |-> FALSE, late |-> 0]

\* A file or line row is about to be emitted: it is counted in `late` when
\* the frame is already exceeded.
emit_row(d, range) ==
    IF is_frame_exceeded(d, range) THEN [d EXCEPT !.late = @ + 1] ELSE d

\* Tree::render_lines from the i-th line of `file` on: one row per hit
\* line; the focused line has an empty row and its context lines before
\* it, and its context lines and an empty row after it.  The pass panics
\* at expect("TODO") on a line whose highlight is not found in its text.
RECURSIVE render_lines(_, _, _, _, _, _, _)
render_lines(lines, i, cur, file, highlight, d, range) ==
    IF i > Len(lines) THEN d
    ELSE IF ~lines[i].matched
    THEN render_lines(lines, i + 1, cur, file, highlight, d, range)
    ELSE LET n == lines[i].number
             focused == cur.file = file /\ cur.line_number = n
             before == { j \in 1..Len(lines) :
                            /\ lines[j].number < n
                            /\ n - lines[j].number <= context_lines }
             after == { j \in 1..Len(lines) :
                            /\ lines[j].number > n
                            /\ lines[j].number - n <= context_lines }
             d0 == emit_row(d, range)
             d1 == IF focused
                   THEN draw_marker(
                            [d0 EXCEPT !.row = @ + 1 + Cardinality(before)],
                            range)
                   ELSE d0
             d2 == IF focused
                   THEN [d1 EXCEPT !.row = @ + 1 + Cardinality(after) + 1]
                   ELSE [d1 EXCEPT !.row = @ + 1]
         IN IF ~matched_columns(highlight, file, n)
            THEN [d1 EXCEPT !.panicked = TRUE]
            ELSE render_lines(lines, i + 1, cur, file, highlight, d2, range)

\* The loop of Tree::render over the files fs (ascending paths): one row
\* per file, its lines below it unless it is collapsed.
RECURSIVE render_files(_, _, _, _, _)
render_files(s, fs, highlight, d, range) ==
    IF fs = << >> THEN d
    ELSE LET f == Head(fs)
             d0 == emit_row(d, range)
             d1 == IF s.cursor.line_number = None /\ s.cursor.file = f
                   THEN draw_marker(d0, range)
                   ELSE d0
             d2 == [d1 EXCEPT !.row = @ + 1]
             d3 == IF f \in s.collapsed THEN d2
                   ELSE render_lines(s.search_result[f], 1, s.cursor, f,
                                     highlight, d2, range)
         IN IF d3.panicked THEN d3
            ELSE render_files(s, Tail(fs), highlight, d3, range)

\* Tree::render: the "SEARCH RESULT" row, then the files.
Tree_render(s, highlight, d, range) ==
    render_files(s, Ascending(Keys(s.search_result)), highlight,
                 [d EXCEPT !.row = @ + 1], range)

\* MainWidget::render: the command row, the dashes row, then the tree.
MainWidget_render(s, highlight, d, range) ==
    Tree_render(s, highlight, [d EXCEPT !.row = @ + 2], range)

\* App::render on a terminal of size sz with the search's highlight:
\* nothing at all on an empty terminal; otherwise a canvas at
\* frame_row_start is drawn and dirty is cleared, unless the tree renderer
\* panics.  `rows` is the row the canvas cursor ends on, `late` the file
\* and line rows emitted after the frame was exceeded.
render_pass(s, highlight, sz) ==
    IF s.panicked \/ is_empty(sz)
    THEN [state |-> s, drew |-> FALSE, marks |-> {}, rows |-> 0, late |-> 0]
    ELSE LET d == MainWidget_render(s, highlight, PassStart,
                                    frame_row_range(frame_row_start, sz))
         IN IF d.panicked
            THEN [state |-> Panic(s), drew |-> FALSE, marks |-> {},
                  rows |-> d.row, late |-> d.late]
            ELSE [state |-> [s EXCEPT !.dirty = FALSE], drew |-> TRUE,
                  marks |-> d.marks, rows |-> d.row, late |-> d.late]

\* App::render in the event loop, where the highlight pass of every search
\* agrees with its text pass.
App_render(s, sz) == render_pass(s, AllFound(s.search_result), sz)

\* The state after construction, on a terminal of any size.
RenderInit ==
    /\ search_result = << >>
    /\ cursor = DefaultCursor
    /\ collapsed = {}
    /\ dirty = FALSE
    /\ panicked = FALSE
    /\ op = "new"
    /\ prev = [cursor |-> DefaultCursor, collapsed |-> {}]
    /\ size \in TerminalSizes
    /\ frame_marks = {}
    /\ rendered = FALSE
    /\ NoWalk
    /\ NoCanvas
    /\ NoCall

\* The event `name` took AppState to s; r is the render pass that follows,
\* if one does.
Rendered(name, s, pass) ==
    \E r \in {IF pass THEN App_render(s, size')
                      ELSE [state |-> s, drew |-> FALSE, marks |-> {},
                            rows |-> 0, late |-> 0]} :
       /\ search_result' = r.state.search_result
       /\ cursor' = r.state.cursor
       /\ collapsed' = r.state.collapsed
       /\ dirty' = r.state.dirty
       /\ panicked' = r.state.panicked
       /\ op' = name
       /\ prev' = [cursor |-> cursor, collapsed |-> collapsed]
       /\ rendered' = r.drew
       /\ frame_marks' = IF r.drew THEN r.marks ELSE frame_marks
       /\ UNCHANGED <<walkVars, canvasVars, callVars>>

\* A key handler after which no render pass runs.
KeyEvent_norender(name, s) ==
    /\ ~panicked
    /\ op # "new"
    /\ size' = size
    /\ Rendered(name, s, FALSE)

\* App::handle_key_event: the handler, then a render pass if it left
\* dirty set.
KeyEvent(name, s) ==
    /\ ~panicked
    /\ op # "new"
    /\ size' = size
    /\ Rendered(name, s, s.dirty)

\* The first render of App::run.
Run ==
    /\ op = "new"
    /\ size' = size
    /\ Rendered("run", State, TRUE)

\* A resize that renders only when the state is dirty.
Resize_ifdirty ==
    /\ ~panicked
    /\ op # "new"
    /\ size' \in TerminalSizes
    /\ Rendered("resize", State, dirty)

\* Event::Resize: the terminal has its new size, and a render pass runs.
Resize ==
    /\ ~panicked
    /\ op # "new"
    /\ size' \in TerminalSizes
    /\ Rendered("resize", State, TRUE)

\* A search typed on the empty result list.
KeyRegrep ==
    /\ search_result = << >>
    /\ \E t \in SmallTrees : KeyEvent("regrep", regrep(State, t))

KeyUp == KeyEvent("cursor_up", cursor_up(State))
KeyDown == KeyEvent("cursor_down", cursor_down(State))
KeyLeft == KeyEvent("cursor_left", cursor_left(State))
KeyRight == KeyEvent("cursor_right", cursor_right(State))
KeyToggle == KeyEvent("toggle_expansion", toggle_expansion(State))

RenderNext ==
    \/ Run
    \/ Resize
    \/ KeyRegrep
    \/ KeyUp
    \/ KeyDown
    \/ KeyLeft
    \/ KeyRight
    \/ KeyToggle

RenderSpec == RenderInit /\ [][RenderNext]_vars

\* C15: after every render pass with a file or line selected, the frame
\* row that carries the cursor marker lies inside the visible window
\* [row_offset, row_offset + rows).
C15_MarkerVisible ==
    (rendered /\ cursor.file # None) =>
        \E r \in frame_marks :
            frame_row_start <= r /\ r < frame_row_start + size.rows

----------------------------------------------------------------------------
(* Tokens and frame lines (canvas.rs).  A text is a sequence of            *)
(* characters; "W" stands for a character two columns wide, every other    *)
(* character is one column wide.  "\n" is a control character.             *)

\* The application as constructed, where only the canvas is at work.
NoApp ==
    /\ search_result = << >>
    /\ cursor = DefaultCursor
    /\ collapsed = {}
    /\ dirty = FALSE
    /\ panicked = FALSE
    /\ op = "new"
    /\ prev = [cursor |-> DefaultCursor, collapsed |-> {}]

appVars == <<search_result, cursor, collapsed, dirty, panicked, op, prev>>

\* Token texts are built from up to MaxTokenLen characters.
MaxTokenLen == 2
\* A FrameLine on its own takes up to MaxDraws draw_token calls.
MaxDraws == 2

\* The character split_prefix_off pads with (U+2026).
Filler == "..."

RawChars == {"a", "W", "\n"}

RawTexts == UNION { [1..n -> RawChars] : n \in 0..MaxTokenLen }

TokenStyles == {"Plain", "Bold"}

\* char::is_control
is_control(c) == c = "\n"

\* char::escape_default of a control character
escape_default(c) == <<"\\", "n">>

\* UnicodeWidthChar::width: "W" is a double-width character, "z" a
\* zero-width one (a combining mark).
Width(c) == IF c = "W" THEN 2 ELSE IF c = "z" THEN 0 ELSE 1

RECURSIVE TextWidth(_)
TextWidth(text) ==
    IF text = << >> THEN 0 ELSE Width(Head(text)) + TextWidth(Tail(text))

RECURSIVE Escaped(_)
Escaped(text) ==
    IF text = << >> THEN << >>
    ELSE (IF is_control(Head(text)) THEN escape_default(Head(text))
          ELSE <<Head(text)>>) \o Escaped(Tail(text))

\* A constructor that stores the text as given.
with_style_raw(text, style) == [text |-> text, style |-> style]

\* Token::with_style: control characters are escaped.
with_style(text, style) == [text |-> Escaped(text), style |-> style]

\* Token::new
Token_new(text) == with_style(text, "Plain")

\* Token::cols
Token_cols(t) == TextWidth(t.text)

\* n times the character c
Repeat(c, n) == [i \in 1..n |-> c]

\* Token::split_prefix_off(col) with the loop at the i-th character and
\* acc columns before it: `prefix` is what the call returns, `rest` what
\* it leaves in the token.
RECURSIVE SplitPrefixFrom(_, _, _, _)
SplitPrefixFrom(t, col, i, acc) ==
    IF i > Len(t.text)
    THEN [prefix |-> t, rest |-> with_style(<< >>, t.style)]
    ELSE IF acc = col
    THEN [prefix |-> [t EXCEPT !.text = SubSeq(t.text, 1, i - 1)],
          rest |-> with_style(SubSeq(t.text, i, Len(t.text)), t.style)]
    ELSE LET next == acc + Width(t.text[i])
         IN IF next > col
            THEN [prefix |-> [t EXCEPT !.text = SubSeq(t.text, 1, i - 1)
                                                  \o Repeat(Filler, col - acc)],
                  rest |-> with_style(SubSeq(t.text, i + 1, Len(t.text)),
                                      t.style)]
            ELSE SplitPrefixFrom(t, col, i + 1, next)

\* A split that looks at the column only after taking a character.
split_prefix_off_late(t, col) ==
    LET RECURSIVE From(_, _)
        From(i, acc) ==
            IF i > Len(t.text)
            THEN [prefix |-> t, rest |-> with_style(<< >>, t.style)]
            ELSE LET next == acc + Width(t.text[i])
                 IN IF next > col
                    THEN [prefix |-> [t EXCEPT !.text =
                                         SubSeq(t.text, 1, i - 1)
                                         \o Repeat(Filler, col - acc)],
                          rest |-> with_style(
                                       SubSeq(t.text, i + 1, Len(t.text)),
                                       t.style)]
                    ELSE From(i + 1, next)
    IN From(1, 0)

\* A split that drops the wide character it cuts without padding.
split_prefix_off_nofill(t, col) ==
    LET sp == SplitPrefixFrom(t, col, 1, 0)
    IN [sp EXCEPT !.prefix.text = SelectSeq(@, LAMBDA c : c # Filler)]

split_prefix_off(t, col) == SplitPrefixFrom(t, col, 1, 0)

\* FrameLine::cols
RECURSIVE FrameLine_cols(_)
FrameLine_cols(tokens) ==
    IF tokens = << >> THEN 0
    ELSE Token_cols(Head(tokens)) + FrameLine_cols(Tail(tokens))

\* FrameLine::split_off(col) with the loop at the i-th token and acc
\* columns before it: `self` is what stays in the line, `suffix` what the
\* call returns.
RECURSIVE SplitOffFrom(_, _, _, _)
SplitOffFrom(tokens, col, i, acc) ==
    IF i > Len(tokens) THEN [self |-> tokens, suffix |-> << >>]
    ELSE IF acc = col
    THEN [self |-> SubSeq(tokens, 1, i - 1),
          suffix |-> SubSeq(tokens, i, Len(tokens))]
    ELSE LET token_cols == Token_cols(tokens[i])
             acc_cols == acc + token_cols
         IN IF acc_cols = col \/ acc_cols < col
            THEN SplitOffFrom(tokens, col, i + 1, acc_cols)
            ELSE LET sp == split_prefix_off(tokens[i],
                                            token_cols - (acc_cols - col))
                 IN [self |-> Append(SubSeq(tokens, 1, i - 1), sp.prefix),
                     suffix |-> <<sp.rest>>
                                  \o SubSeq(tokens, i + 1, Len(tokens))]

\* A split at token boundaries only: a token that straddles col stays whole.
split_off_whole(tokens, col) ==
    LET k == Cardinality({ i \in 1..Len(tokens) :
                             FrameLine_cols(SubSeq(tokens, 1, i - 1)) < col })
    IN [self |-> SubSeq(tokens, 1, k),
        suffix |-> SubSeq(tokens, k + 1, Len(tokens))]

split_off(tokens, col) == SplitOffFrom(tokens, col, 1, 0)

\* Padding in bold.
Padded_bold(tokens, col) ==
    IF col > FrameLine_cols(tokens)
    THEN Append(tokens,
                with_style(Repeat(" ", col - FrameLine_cols(tokens)), "Bold"))
    ELSE tokens

\* The line draw_token splits: padded with plain spaces up to col when it
\* is shorter.
Padded(tokens, col) ==
    IF col > FrameLine_cols(tokens)
    THEN Append(tokens, Token_new(Repeat(" ", col - FrameLine_cols(tokens))))
    ELSE tokens

\* FrameLine::draw_token
draw_token(tokens, col, token) ==
    LET first == split_off(Padded(tokens, col), col)
        second == split_off(first.suffix, Token_cols(token))
    IN Append(first.self, token) \o second.suffix

\* The tokens the callers draw.
Tokens == { with_style(text, style) : text \in RawTexts, style \in TokenStyles }

\* A FrameLine on its own, as in tests::frame_line: it starts empty and
\* takes draw_token calls at columns 0..MaxCols.
LineInit ==
    /\ NoApp
    /\ NoWalk
    /\ NoTerminal
    /\ NoCall
    /\ canvas = << >>
    /\ line = << >>
    /\ drawn = [n |-> 0]

DrawToken ==
    /\ drawn.n < MaxDraws
    /\ \E col \in 0..MaxCols, token \in Tokens :
          /\ line' = draw_token(line, col, token)
          /\ drawn' = [n |-> drawn.n + 1, col |-> col, token |-> token,
                       before |-> line]
    /\ UNCHANGED <<appVars, walkVars, termVars, callVars, canvas>>

LineNext == DrawToken

LineSpec == LineInit /\ [][LineNext]_vars

\* The columns of a line: one cell per column, holding the character that
\* covers it and which half of it (1, or 2 for the right half of a wide
\* character).
RECURSIVE TextCells(_)
TextCells(text) ==
    IF text = << >> THEN << >>
    ELSE [k \in 1..Width(Head(text)) |-> <<Head(text), k>>]
         \o TextCells(Tail(text))

RECURSIVE Cells(_)
Cells(tokens) ==
    IF tokens = << >> THEN << >>
    ELSE TextCells(Head(tokens).text) \o Cells(Tail(tokens))

\* C17: after r.draw_token(c, s) the columns [c, c + width(s)) of the row
\* hold exactly s's text, and the row is at least c + width(s) wide.
C17_DrawTokenHolds ==
    drawn.n > 0 =>
        LET c == drawn.col
            w == Token_cols(drawn.token)
        IN /\ FrameLine_cols(line) >= c + w
           /\ Len(Cells(line)) >= c + w
           /\ SubSeq(Cells(line), c + 1, c + w) = TextCells(drawn.token.text)

\* A one-column token drawn onto the right half of a wide character, with
\* more of the line to its right.
C17_Witness ==
    /\ drawn.n > 1
    /\ LET c == drawn.col
           w == Token_cols(drawn.token)
           b == Cells(drawn.before)
       IN /\ w > 0
          /\ c + w < Len(b)
          /\ b[c + 1] = <<"W", 2>>
          /\ SubSeq(Cells(line), c + 1, c + w) = TextCells(drawn.token.text)

\* C34: draw_token(col, token) leaves every character that lay entirely
\* outside the columns [col, col + width(token)) at its original column,
\* also when col or col + width(token) falls inside a double-width
\* character.
C34_OutsideKept ==
    drawn.n > 0 =>
        LET b == Cells(drawn.before)
            a == Cells(line)
            c == drawn.col
            w == Token_cols(drawn.token)
            Overwritten(k) == c < k /\ k <= c + w
            OtherHalf(k) ==
                IF b[k][1] # "W" THEN k
                ELSE IF b[k][2] = 1 THEN k + 1 ELSE k - 1
        IN \A k \in 1..Len(b) :
              (~Overwritten(k) /\ ~Overwritten(OtherHalf(k))) =>
                  /\ k <= Len(a)
                  /\ a[k] = b[k]

----------------------------------------------------------------------------

(* Token::split_prefix_off called on its own, on any token the callers     *)
(* build, at any column up to one past MaxCols.                            *)

SplitInit ==
    /\ NoApp
    /\ NoWalk
    /\ NoTerminal
    /\ NoCanvas
    /\ call \in [token : Tokens, col : 0..(MaxCols + 1)]
    /\ ret = << >>

SplitPrefixOff ==
    /\ ret = << >>
    /\ ret' = split_prefix_off(call.token, call.col)
    /\ UNCHANGED <<appVars, walkVars, termVars, canvasVars, call>>

SplitNext == SplitPrefixOff

SplitSpec == SplitInit /\ [][SplitNext]_vars

\* C18: splitting a token at a column col not exceeding its width yields
\* a left part exactly col columns wide; when col falls inside a
\* double-width character, the left part is the text before that character
\* padded with filler up to col, and the right part is the text after it:
\* the character is in neither part.
C18_SplitWidth ==
    (ret # << >> /\ call.col <= Token_cols(call.token)) =>
        LET text == call.token.text
            inside == { k \in 1..Len(text) :
                          /\ TextWidth(SubSeq(text, 1, k - 1)) < call.col
                          /\ call.col < TextWidth(SubSeq(text, 1, k)) }
        IN /\ Token_cols(ret.prefix) = call.col
           /\ \A k \in inside :
                 /\ ret.prefix.text =
                       SubSeq(text, 1, k - 1)
                       \o Repeat(Filler,
                                 call.col - TextWidth(SubSeq(text, 1, k - 1)))
                 /\ ret.rest.text = SubSeq(text, k + 1, Len(text))
                 /\ Len(SelectSeq(ret.prefix.text, LAMBDA c : c = "W"))
                    + Len(SelectSeq(ret.rest.text, LAMBDA c : c = "W"))
                    = Len(SelectSeq(text, LAMBDA c : c = "W")) - 1

\* Two wide characters split at column 3: the second one is cut, the left
\* part is the first one and a filler, the right part is empty.
C18_Witness ==
    /\ ret # << >>
    /\ call.token.text = <<"W", "W">>
    /\ call.col = 3
    /\ ret.prefix.text = <<"W", Filler>>
    /\ ret.rest.text = << >>

\* C19: draw_token(col, token) on a row narrower than col first fills the
\* gap [width, col) with plain-style spaces, so that afterwards the row is
\* col + width(token) wide and the token starts exactly at column col.
C19_DrawTokenPads ==
    (drawn.n > 0 /\ FrameLine_cols(drawn.before) < drawn.col) =>
        LET c == drawn.col
            w == Token_cols(drawn.token)
            gap == c - FrameLine_cols(drawn.before)
        IN /\ line = drawn.before
                       \o <<[text |-> Repeat(" ", gap), style |-> "Plain"]>>
                       \o <<drawn.token>>
           /\ FrameLine_cols(line) = c + w
           /\ SubSeq(Cells(line), c + 1, c + w) = TextCells(drawn.token.text)

\* A bold token drawn two or more columns past the end of a non-empty row.
C19_Witness ==
    /\ drawn.n > 1
    /\ FrameLine_cols(drawn.before) > 0
    /\ drawn.col > FrameLine_cols(drawn.before) + 1
    /\ drawn.token.style = "Bold"
    /\ Token_cols(drawn.token) > 0
    /\ FrameLine_cols(line) = drawn.col + Token_cols(drawn.token)

----------------------------------------------------------------------------
(* Frame::dirty_lines called on its own: the rows of a frame are its       *)
(* `lines`, and row indices count from 0.                                  *)

\* The frames compared have up to MaxFrameRows rows.
MaxFrameRows == 3

\* Rows as draw_token leaves them: empty, one plain or bold token, one
\* token of two characters, and the same text as two tokens.
FrameLines ==
    LET a == Token_new(<<"a">>)
        b == with_style(<<"a">>, "Bold")
        aa == Token_new(<<"a", "a">>)
    IN {<< >>, <<a>>, <<b>>, <<aa>>, draw_token(<<a>>, 1, a)}

Frames == UNION { [1..n -> FrameLines] : n \in 0..MaxFrameRows }

\* The rows below both row counts that differ, in ascending order.
dirty_zip(lines, prev_lines) ==
    SelectSeq([i \in 1..Min({Len(lines), Len(prev_lines)}) |-> i - 1],
              LAMBDA i : lines[i + 1] # prev_lines[i + 1])

\* The rows at or beyond prev's row count.
dirty_skip(lines, prev_lines) ==
    IF Len(lines) > Len(prev_lines)
    THEN [i \in 1..(Len(lines) - Len(prev_lines)) |-> Len(prev_lines) + i - 1]
    ELSE << >>

\* Without the rows beyond prev's row count.
dirty_lines_zip(lines, prev_lines) ==
    LET rows == dirty_zip(lines, prev_lines)
    IN [k \in 1..Len(rows) |-> <<rows[k], lines[rows[k] + 1]>>]

\* Frame::dirty_lines: the (row, line) pairs in the order it yields them.
dirty_lines(lines, prev_lines) ==
    LET rows == dirty_zip(lines, prev_lines) \o dirty_skip(lines, prev_lines)
    IN [k \in 1..Len(rows) |-> <<rows[k], lines[rows[k] + 1]>>]

DirtyInit ==
    /\ NoApp
    /\ NoWalk
    /\ NoTerminal
    /\ NoCanvas
    /\ call \in [lines : Frames, prev : Frames]
    /\ ret = << >>

DirtyLines ==
    /\ ret = << >>
    /\ ret' = [yielded |-> dirty_lines(call.lines, call.prev)]
    /\ UNCHANGED <<appVars, walkVars, termVars, canvasVars, call>>

DirtyNext == DirtyLines

DirtySpec == DirtyInit /\ [][DirtyNext]_vars

\* C16: Frame::dirty_lines(prev) yields row i exactly when i is below both
\* frames' row counts and row i differs from prev's row i (token text and
\* style), or i is a row at or beyond prev's row count; each row at most
\* once, with the frame's own line, and nothing for identical frames.
C16_DirtyLines ==
    ret # << >> =>
        LET ys == ret.yielded
            n == Len(call.lines)
            m == Len(call.prev)
        IN /\ \A i \in 0..(MaxFrameRows + 1) :
                 (\E k \in 1..Len(ys) : ys[k][1] = i)
                    = \/ i < n /\ i < m /\ call.lines[i + 1] # call.prev[i + 1]
                      \/ i >= m /\ i < n
           /\ \A j, k \in 1..Len(ys) : ys[j][1] = ys[k][1] => j = k
           /\ \A k \in 1..Len(ys) : ys[k][2] = call.lines[ys[k][1] + 1]
           /\ call.lines = call.prev => ys = << >>

\* A frame of three rows against one of two: row 0 is equal, row 1 has
\* the same text in another style, row 2 is new.
C16_Witness ==
    /\ ret # << >>
    /\ Len(call.lines) = 3
    /\ Len(call.prev) = 2
    /\ call.lines[1] = call.prev[1]
    /\ call.lines[2] = <<with_style(<<"a">>, "Bold")>>
    /\ call.prev[2] = <<Token_new(<<"a">>)>>
    /\ [k \in 1..Len(ret.yielded) |-> ret.yielded[k][1]] = <<1, 2>>

----------------------------------------------------------------------------
(* A Canvas (canvas.rs), as tests::canvas drives it: a frame of two rows   *)
(* and MaxCols columns, at row offset 0 or 1, drawn on by draw_at, draw    *)
(* and newline.  A panic (a line index out of bounds) sets panicked.       *)

\* TokenPosition::ORIGIN
ORIGIN == [row |-> 0, col |-> 0]

\* Frame::new
Frame_new(sz) == [size |-> sz, lines |-> [i \in 1..sz.rows |-> << >>]]

\* Canvas::new
Canvas_new(frame_row_offset, frame_size) ==
    [frame |-> Frame_new(frame_size),
     frame_row_offset |-> frame_row_offset,
     cursor |-> ORIGIN,
     col_offset |-> 0,
     panicked |-> FALSE]

\* Canvas::set_col_offset
set_col_offset(c, offset) == [c EXCEPT !.col_offset = offset]

\* A draw on line i that does not cut the line at the frame's width.
draw_on_line_noclip(c, i, position, token) ==
    IF i + 1 \notin 1..Len(c.frame.lines) THEN [c EXCEPT !.panicked = TRUE]
    ELSE [c EXCEPT !.frame.lines[i + 1] =
             draw_token(@, position.col + c.col_offset, token)]

\* The tail of Canvas::draw_at: the token is drawn on line i (from 0) of
\* the frame at position.col + col_offset, and the line is cut at the
\* frame's width.
draw_on_line(c, i, position, token) ==
    IF i + 1 \notin 1..Len(c.frame.lines) THEN [c EXCEPT !.panicked = TRUE]
    ELSE [c EXCEPT !.frame.lines[i + 1] =
             split_off(draw_token(@, position.col + c.col_offset, token),
                       c.frame.size.cols).self]

\* A draw_at that draws a row outside the frame on the nearest row inside.
draw_at_nearest(c, position, token) ==
    LET range == frame_row_range(c.frame_row_offset, c.frame.size)
        row == IF position.row < c.frame_row_offset THEN c.frame_row_offset
               ELSE IF position.row \in range THEN position.row
               ELSE c.frame_row_offset + c.frame.size.rows - 1
    IN draw_on_line(c, row - c.frame_row_offset, position, token)

\* Canvas::draw_at
draw_at(c, position, token) ==
    IF position.row \notin frame_row_range(c.frame_row_offset, c.frame.size)
    THEN c
    ELSE draw_on_line(c, position.row - c.frame_row_offset, position, token)

\* Canvas::draw
draw(c, token) ==
    [draw_at(c, c.cursor, token) EXCEPT !.cursor.col = @ + Token_cols(token)]

\* Canvas::newline
newline(c) == [c EXCEPT !.cursor = [row |-> @.row + 1, col |-> 0]]

\* The plain tokens drawn on the canvas.
CanvasTokens ==
    { Token_new(text) :
        text \in UNION { [1..n -> {"a", "W"}] : n \in 0..MaxTokenLen } }

\* The size of the frame of tests::canvas.
TestSize == [rows |-> 2, cols |-> MaxCols]

\* A canvas after Canvas::new and set_col_offset.
CanvasInit ==
    /\ NoApp
    /\ NoWalk
    /\ NoTerminal
    /\ NoCall
    /\ line = << >>
    /\ \E offset \in 0..1, col_offset \in 0..1 :
          canvas = set_col_offset(Canvas_new(offset, TestSize), col_offset)
    /\ drawn = [n |-> 0]

\* The canvas call `name` took the canvas to c.
Called(name, position, token, c) ==
    /\ ~panicked
    /\ drawn.n < MaxDraws
    /\ canvas' = c
    /\ panicked' = c.panicked
    /\ drawn' = [n |-> drawn.n + 1, call |-> name, position |-> position,
                 token |-> token, before |-> canvas]
    /\ UNCHANGED <<search_result, cursor, collapsed, dirty, op, prev,
                   walkVars, termVars, callVars, line>>

DrawAt ==
    \E row \in 0..(TestSize.rows + 1), col \in 0..MaxCols,
       token \in CanvasTokens :
       Called("draw_at", [row |-> row, col |-> col], token,
              draw_at(canvas, [row |-> row, col |-> col], token))

Draw ==
    \E token \in CanvasTokens :
       Called("draw", canvas.cursor, token, draw(canvas, token))

Newline ==
    Called("newline", canvas.cursor, Token_new(<< >>), newline(canvas))

CanvasNext ==
    \/ DrawAt
    \/ Draw
    \/ Newline

CanvasSpec == CanvasInit /\ [][CanvasNext]_vars

\* C20: Canvas::draw_at at a row outside [row_offset, row_offset + rows)
\* leaves every row of the frame unchanged and does not fail.
C20_DrawAtOutside ==
    (drawn.n > 0 /\ drawn.call = "draw_at"
        /\ ~(/\ drawn.before.frame_row_offset <= drawn.position.row
             /\ drawn.position.row < drawn.before.frame_row_offset
                                       + drawn.before.frame.size.rows)) =>
        /\ ~panicked
        /\ canvas.frame.lines = drawn.before.frame.lines

\* A token drawn at the row just above the frame or just past it, when
\* the frame already has a token on a row.
C20_Witness ==
    /\ drawn.n > 1
    /\ drawn.call = "draw_at"
    /\ canvas.frame_row_offset = 1
    /\ drawn.position.row \in {0, 1 + TestSize.rows}
    /\ Token_cols(drawn.token) > 0
    /\ \E i \in 1..Len(canvas.frame.lines) : canvas.frame.lines[i] # << >>
    /\ canvas.frame.lines = drawn.before.frame.lines

\* C21: after any sequence of Canvas::draw and Canvas::draw_at calls, with
\* any col_offset, every row of the frame is at most as wide as the frame:
\* what is drawn past the right edge is clipped.
C21_RowsClipped ==
    \A i \in 1..Len(canvas.frame.lines) :
        FrameLine_cols(canvas.frame.lines[i]) <= canvas.frame.size.cols

\* A token drawn across the right edge of the frame with a column offset,
\* cut inside a wide character: the row is as wide as the frame and ends
\* with the filler.
C21_Witness ==
    /\ drawn.n > 0
    /\ drawn.call \in {"draw", "draw_at"}
    /\ canvas.col_offset = 1
    /\ drawn.position.col + canvas.col_offset + Token_cols(drawn.token)
          > canvas.frame.size.cols
    /\ \E i \in 1..Len(canvas.frame.lines) :
          /\ canvas.frame.lines[i] # drawn.before.frame.lines[i]
          /\ FrameLine_cols(canvas.frame.lines[i]) = canvas.frame.size.cols
          /\ canvas.frame.lines[i][Len(canvas.frame.lines[i])].text
                = <<Filler>>

\* C22: no token stored in a row holds a raw control character: the
\* constructor escapes them, and every draw and split keeps it so.
C22_NoControlChars ==
    \A i \in 1..Len(line) :
        \A k \in 1..Len(line[i].text) : ~is_control(line[i].text[k])

\* A token built from a text with a control character was drawn, and a
\* later draw split it inside the escape sequence: the row keeps the
\* backslash of the escape in a token of its own, followed by the new token.
C22_Witness ==
    /\ drawn.n > 1
    /\ \E i \in 1..Len(drawn.before) :
          drawn.before[i].text = escape_default("\n")
    /\ \E i \in 1..(Len(line) - 1) :
          /\ line[i].text = <<"\\">>
          /\ line[i + 1] = drawn.token
    /\ \E text \in RawTexts :
          /\ \E k \in 1..Len(text) : is_control(text[k])
          /\ drawn.token = with_style(text, drawn.token.style)

\* ---------------------------------------------------------------------
\* The output of `git grep -n --heading` and its parsers (git.rs).  An
\* output is a sequence of lines, as str::lines yields them, and a line is
\* a sequence of characters.

DigitChars == <<"0", "1", "2", "3", "4", "5", "6", "7", "8", "9">>

is_digit(c) == \E d \in 1..Len(DigitChars) : DigitChars[d] = c

DigitValue(c) == (CHOOSE d \in 1..Len(DigitChars) : DigitChars[d] = c) - 1

\* usize's Display: the decimal digits of n.
RECURSIVE to_string(_)
to_string(n) ==
    IF n < 10 THEN <<DigitChars[n + 1]>>
    ELSE to_string(n \div 10) \o <<DigitChars[(n % 10) + 1]>>

RECURSIVE DigitsValue(_, _)
DigitsValue(chars, acc) ==
    IF chars = << >> THEN acc
    ELSE DigitsValue(Tail(chars), 10 * acc + DigitValue(Head(chars)))

\* str::parse::<NonZeroUsize> of a run of digits: None for the empty run
\* and for zero.
parse_number(chars) == IF chars = << >> THEN None ELSE DigitsValue(chars, 0)

\* Line::parse returning None
NoLine == [number |-> None, text |-> << >>, hit |-> FALSE]

\* Line::parse with the loop at the i-th character.
RECURSIVE LineParseFrom(_, _)
LineParseFrom(chars, i) ==
    IF i > Len(chars) THEN NoLine
    ELSE IF chars[i] \in {":", "-"}
    THEN LET number == parse_number(SubSeq(chars, 1, i - 1))
         IN IF number = None THEN NoLine
            ELSE [number |-> number,
                  text |-> SubSeq(chars, i + 1, Len(chars)),
                  hit |-> chars[i] = ":"]
    ELSE IF is_digit(chars[i]) THEN LineParseFrom(chars, i + 1)
    ELSE NoLine

Line_parse(chars) == LineParseFrom(chars, 1)

\* BTreeMap::new
EmptyMap == [k \in {} |-> << >>]

\* BTreeMap::insert
Insert(map, key, value) ==
    [k \in DOMAIN map \cup {key} |-> IF k = key THEN value ELSE map[k]]

\* The error of or_fail()? in a parser
ParseError == [ok |-> FALSE, error |-> "parse"]

\* SearchResult::parse with the loop at the i-th line.
RECURSIVE SearchResultParseFrom(_, _, _, _, _)
SearchResultParseFrom(lines, i, files, current, max_line_width) ==
    IF i > Len(lines)
    THEN [ok |-> TRUE, files |-> files, max_line_width |-> max_line_width]
    ELSE IF lines[i] = <<"-", "-">>
    THEN SearchResultParseFrom(lines, i + 1, files, current, max_line_width)
    ELSE LET l == Line_parse(lines[i])
         IN IF l # NoLine
            THEN IF current \notin DOMAIN files THEN ParseError
                 ELSE SearchResultParseFrom(
                          lines, i + 1,
                          [files EXCEPT ![current] = Append(@, l)],
                          current,
                          Max({max_line_width, Len(to_string(l.number))}))
            ELSE SearchResultParseFrom(
                     lines, i + 1, Insert(files, lines[i], << >>),
                     lines[i], max_line_width)

SearchResult_parse(lines) == SearchResultParseFrom(lines, 1, EmptyMap, << >>, 1)

\* Highlight::parse with the loop at the i-th line.
RECURSIVE HighlightParseFrom(_, _, _, _)
HighlightParseFrom(lines, i, hl, current) ==
    IF i > Len(lines) THEN [ok |-> TRUE, lines |-> hl]
    ELSE LET m == Line_parse(lines[i])
         IN IF m # NoLine
            THEN IF current \notin DOMAIN hl THEN ParseError
                 ELSE HighlightParseFrom(
                          lines, i + 1,
                          [hl EXCEPT ![current] =
                              Insert(@, m.number,
                                     Append(IF m.number \in DOMAIN @
                                            THEN @[m.number] ELSE << >>,
                                            m.text))],
                          current)
            ELSE HighlightParseFrom(lines, i + 1,
                                    Insert(hl, lines[i], EmptyMap), lines[i])

Highlight_parse(lines) == HighlightParseFrom(lines, 1, EmptyMap, << >>)

\* ---------------------------------------------------------------------
\* GrepOptions::call (git.rs): the highlight search runs on worker 0 and
\* the text search on worker 1, inside std::thread::scope.  `call` holds
\* the position of the calling thread and of each worker, `ret` the value
\* the function returned.

\* What git printed for a worker: nothing, one file with one hit, one
\* file with two numbered lines, or a file named "1-" with one hit, whose
\* heading reads as a numbered line.
WorkerOutputs ==
    { << >>,
      << <<"a">>, <<"1", ":", "a">> >>,
      << <<"a">>, <<"1", ":", "a">>, <<"2", "-", "a">> >>,
      << <<"1", "-">>, <<"2", ":", "a">> >> }

Patterns == { << >>, <<"a">> }

Unspawned == [pc |-> "unspawned", output |-> << >>, result |-> << >>]

\* The error a worker returns.
Failure(w, what) == [ok |-> FALSE, error |-> what, worker |-> w]

\* SearchResult::default
SearchResult_default ==
    [ok |-> TRUE, files |-> EmptyMap, max_line_width |-> 0,
     highlight |-> EmptyMap]

GrepInit ==
    /\ NoApp
    /\ NoWalk
    /\ NoTerminal
    /\ NoCanvas
    /\ \E pattern \in Patterns :
          call = [pattern |-> pattern, pc |-> "start",
                  handle |-> [w \in 0..1 |-> Unspawned],
                  highlight |-> EmptyMap, pending |-> << >>]
    /\ ret = << >>

GrepStep(c, r) ==
    /\ call' = c
    /\ ret' = r
    /\ UNCHANGED <<appVars, walkVars, termVars, canvasVars>>

\* The entry of GrepOptions::call: an empty pattern returns the default
\* result at once.
Enter ==
    /\ call.pc = "start"
    /\ IF call.pattern = << >>
       THEN GrepStep([call EXCEPT !.pc = "returned"], SearchResult_default)
       ELSE GrepStep([call EXCEPT !.pc = "spawn0"], ret)

\* s.spawn of the highlight worker
Spawn0 ==
    /\ call.pc = "spawn0"
    /\ GrepStep([call EXCEPT !.pc = "spawn1", !.handle[0].pc = "call"], ret)

\* s.spawn of the text worker
Spawn1 ==
    /\ call.pc = "spawn1"
    /\ GrepStep([call EXCEPT !.pc = "join0", !.handle[1].pc = "call"], ret)

\* A worker's call(&args, false): git fails, or prints an output.
GitCall(w) ==
    /\ call.handle[w].pc = "call"
    /\ \/ GrepStep([call EXCEPT !.handle[w].pc = "done",
                                !.handle[w].result = Failure(w, "git")],
                   ret)
       \/ \E output \in WorkerOutputs :
             GrepStep([call EXCEPT !.handle[w].pc = "parse",
                                   !.handle[w].output = output],
                      ret)

\* A worker's Highlight::parse or SearchResult::parse, which ends it.
ParseOutput(w) ==
    /\ call.handle[w].pc = "parse"
    /\ \E r \in { IF w = 0 THEN Highlight_parse(call.handle[w].output)
                  ELSE SearchResult_parse(call.handle[w].output) } :
          GrepStep([call EXCEPT
                       !.handle[w].pc = "done",
                       !.handle[w].result =
                           IF r.ok THEN r ELSE Failure(w, r.error)],
                   ret)

\* handle0.join() and the `?` after it
Join0 ==
    /\ call.pc = "join0"
    /\ call.handle[0].pc = "done"
    /\ IF call.handle[0].result.ok
       THEN GrepStep([call EXCEPT !.pc = "join1",
                                  !.highlight = call.handle[0].result.lines],
                     ret)
       ELSE GrepStep([call EXCEPT !.pc = "exit",
                                  !.pending = call.handle[0].result],
                     ret)

\* handle1.join(), the `?` after it, and the closure's Ok(search_result)
Join1 ==
    /\ call.pc = "join1"
    /\ call.handle[1].pc = "done"
    /\ IF call.handle[1].result.ok
       THEN GrepStep([call EXCEPT
                         !.pc = "exit",
                         !.pending = [ok |-> TRUE,
                                      files |-> call.handle[1].result.files,
                                      max_line_width |->
                                          call.handle[1].result.max_line_width,
                                      highlight |-> call.highlight]],
                     ret)
       ELSE GrepStep([call EXCEPT !.pc = "exit",
                                  !.pending = call.handle[1].result],
                     ret)

\* A scope that returns the closure's value without waiting for the
\* threads that were not joined.
ScopeExit_nowait ==
    /\ call.pc = "exit"
    /\ GrepStep([call EXCEPT !.pc = "returned"], call.pending)

\* The end of std::thread::scope: it blocks until every spawned thread has
\* finished, joined or not, and then returns the closure's value.
ScopeExit ==
    /\ call.pc = "exit"
    /\ \A w \in 0..1 : call.handle[w].pc = "done"
    /\ GrepStep([call EXCEPT !.pc = "returned"], call.pending)

GrepNext ==
    \/ Enter
    \/ Spawn0
    \/ Spawn1
    \/ \E w \in 0..1 : GitCall(w)
    \/ \E w \in 0..1 : ParseOutput(w)
    \/ Join0
    \/ Join1
    \/ ScopeExit

GrepSpec == GrepInit /\ [][GrepNext]_vars

\* C23: GrepOptions::call with a non-empty pattern returns only after both
\* workers have terminated, whatever the interleaving; it returns Ok
\* exactly when both workers succeeded, with the text worker's files and
\* the highlight worker's highlights, and otherwise the error of a worker
\* that failed, with no result.
C23_ForkJoin ==
    (call.pc = "returned" /\ call.pattern # << >>) =>
        /\ \A w \in 0..1 : call.handle[w].pc = "done"
        /\ ret.ok <=> \A w \in 0..1 : call.handle[w].result.ok
        /\ ret.ok =>
              /\ ret.files = call.handle[1].result.files
              /\ ret.highlight = call.handle[0].result.lines
        /\ ~ret.ok =>
              /\ \E w \in 0..1 : ret = call.handle[w].result
              /\ DOMAIN ret = {"ok", "error", "worker"}

\* The call returned Ok with a file and its highlight.
C23_Witness ==
    /\ call.pc = "returned"
    /\ call.pattern # << >>
    /\ ret.ok
    /\ ret.files # EmptyMap
    /\ ret.highlight # EmptyMap

\* ---------------------------------------------------------------------
\* The event loop of App::run with a search that can fail.  `ret` holds
\* what App::run returned; it is empty while the loop runs.

Running == DOMAIN ret = {}

FullSize == [rows |-> MaxRows, cols |-> MaxCols]

LoopInit ==
    /\ RenderInit
    /\ size = FullSize

\* A later search returns one of these results: any set of files, each
\* with one hit on its first line.
ReTrees == UNION { [D -> {<<[number |-> 1, matched |-> TRUE]>>}] :
                   D \in SUBSET Paths }

\* A key that searches again, with the search returning the files t.
KeyRegrepAgain ==
    /\ search_result # << >>
    /\ \E t \in ReTrees : KeyEvent("regrep", regrep(State, t))

\* A key that searches again, with GrepOptions::call returning an error:
\* the `?` of AppState::regrep returns before anything is assigned, the
\* `?` of every caller up to App::run passes the error on, and App::run
\* returns it.
KeyRegrepFails ==
    /\ ~panicked
    /\ op # "new"
    /\ op' = "regrep_failed"
    /\ prev' = [cursor |-> cursor, collapsed |-> collapsed]
    /\ ret' = [ok |-> FALSE, error |-> "git"]
    /\ rendered' = FALSE
    /\ UNCHANGED <<search_result, cursor, collapsed, dirty, panicked,
                   size, frame_marks, call, walkVars, canvasVars>>

LoopNext ==
    \/ Running /\ Run
    \/ Running /\ KeyRegrep
    \/ Running /\ KeyRegrepAgain
    \/ Running /\ KeyRegrepFails
    \/ Running /\ KeyDown
    \/ Running /\ KeyRight
    \/ Running /\ KeyToggle

LoopSpec == LoopInit /\ [][LoopNext]_vars

\* C24: when the search fails during a re-search, the event loop keeps
\* running and the result tree and the cursor stay as they were.
C24_SearchFailureRecoverable ==
    [][op' = "regrep_failed" =>
          /\ DOMAIN ret' = {}
          /\ search_result' = search_result
          /\ cursor' = cursor]_vars

\* ---------------------------------------------------------------------
\* SearchResult::parse on what `git grep -n --heading -C <n>` prints: per
\* file a heading line with its path, then its hit lines "<number>:<text>"
\* and context lines "<number>-<text>", with "--" between hunks.

MaxPathLen == 2

PathChars == {"a", "1", "-"}

\* The paths of the files: any name over PathChars.
GitPaths == UNION { [1..n -> PathChars] : n \in 1..MaxPathLen }

GitLineNumbers == {1, 2, 10}

GitTexts == { <<"a">>, <<"2", ":">>, <<"-", "a">> }

Heading(path) == [kind |-> "heading", path |-> path]

Separator == [kind |-> "separator"]

GitLines ==
    [kind : {"line"}, number : GitLineNumbers, text : GitTexts, hit : BOOLEAN]

\* What git prints below a heading: one hit line, or two lines of
\* ascending numbers, at least one of them a hit, in one hunk or in two.
GitBodies ==
    { <<l>> : l \in { x \in GitLines : x.hit } }
    \cup UNION { { <<p[1], p[2]>>, <<p[1], Separator, p[2]>> } :
                 p \in { q \in GitLines \X GitLines :
                           /\ q[1].number < q[2].number
                           /\ q[1].hit \/ q[2].hit } }

\* The outputs: no file, one file, or two files with one hit line each.
GitOutputs ==
    { << >> }
    \cup { <<Heading(p)>> \o b : p \in GitPaths, b \in GitBodies }
    \cup { <<Heading(p[1]), l[1], Heading(p[2]), l[2]>> :
           p \in { q \in GitPaths \X GitPaths : q[1] # q[2] },
           l \in { m \in GitLines \X GitLines : m[1].hit /\ m[2].hit } }

\* The line git prints for an item.
format_item(item) ==
    CASE item.kind = "heading" -> item.path
      [] item.kind = "separator" -> <<"-", "-">>
      [] item.kind = "line" ->
            to_string(item.number) \o <<IF item.hit THEN ":" ELSE "-">>
                \o item.text

format_output(items) == [i \in 1..Len(items) |-> format_item(items[i])]

ParseInit ==
    /\ NoApp
    /\ NoWalk
    /\ NoTerminal
    /\ NoCanvas
    /\ \E items \in GitOutputs : call = [items |-> items]
    /\ ret = << >>

Parse ==
    /\ DOMAIN ret = {}
    /\ ret' = SearchResult_parse(format_output(call.items))
    /\ UNCHANGED <<appVars, walkVars, termVars, canvasVars, call>>

ParseNext == Parse

ParseSpec == ParseInit /\ [][ParseNext]_vars

\* The files the printed items stand for: an entry per heading, and under
\* it the numbered lines that follow it, in order.
RECURSIVE EntriesFrom(_, _, _, _)
EntriesFrom(items, i, files, current) ==
    IF i > Len(items) THEN files
    ELSE IF items[i].kind = "heading"
    THEN EntriesFrom(items, i + 1, Insert(files, items[i].path, << >>),
                     items[i].path)
    ELSE IF items[i].kind = "separator"
    THEN EntriesFrom(items, i + 1, files, current)
    ELSE EntriesFrom(items, i + 1,
                     [files EXCEPT ![current] =
                         Append(@, [number |-> items[i].number,
                                    text |-> items[i].text,
                                    hit |-> items[i].hit])],
                     current)

\* C25: SearchResult::parse maps each heading line to one file entry, each
\* following "<digits>:<text>" line to a hit Line and each
\* "<digits>-<text>" line to a non-hit Line of that file, in input order,
\* number and text preserved; "--" lines produce no entry.
C25_ParseMaps ==
    DOMAIN ret # {} =>
        /\ ret.ok
        /\ ret.files = EntriesFrom(call.items, 1, EmptyMap, << >>)

\* C26: in every reachable state with the cursor at LineLevel, the
\* cursor's file is not in the collapsed set, in particular after a
\* line-level cursor_up or cursor_down crossed into a collapsed file.
C26_LineLevelExpanded ==
    (~panicked /\ LineLevel(cursor)) => cursor.file \notin collapsed

\* The event loop is blocked in next_event and the last event it handled
\* was a key press.
WaitsAfterKey == ~panicked /\ op \notin {"new", "run", "resize"}

\* C27: every state change made while handling an event is rendered
\* before the loop blocks for the next event: whenever the loop waits
\* after handling a key press, dirty is false.
C27_CleanWhenWaiting == WaitsAfterKey => ~dirty

\* C27 as the code has it: whenever the loop waits after handling a key
\* press, dirty is false unless the terminal's size is empty, in which
\* case nothing is drawn and dirty stays as the handler left it.
C27_CleanUnlessEmpty == WaitsAfterKey => (~dirty \/ is_empty(size))

\* A key press moved the cursor, and the frame was drawn again before the
\* loop waits.
C27_Witness ==
    /\ WaitsAfterKey
    /\ cursor # prev.cursor
    /\ rendered
    /\ ~dirty

\* The cursor markers of a frame of the terminal's size drawn from the
\* state as it is now.
FreshMarks ==
    MainWidget_render(State, AllFound(search_result), PassStart,
                      frame_row_range(frame_row_start, size)).marks

\* C28: every resize event triggers a render pass that builds a fresh
\* frame at the terminal's current size, whatever the dirty flag.
C28_ResizeRenders ==
    op = "resize" => (rendered /\ frame_marks = FreshMarks)

\* C28 as the code has it: every resize event to a size that is not empty
\* is followed by a render pass that builds a fresh frame at that size,
\* whatever the dirty flag; on a resize to an empty size nothing is built.
C28_ResizeRendersUnlessEmpty ==
    op = "resize" =>
        IF is_empty(size) THEN ~rendered
        ELSE rendered /\ frame_marks = FreshMarks

\* A resize to a terminal too short for the row of the selected file: the
\* frame was built at the new size, so it carries no cursor marker.
C28_Witness ==
    /\ op = "resize"
    /\ rendered
    /\ ~is_empty(size)
    /\ FileLevel(cursor)
    /\ frame_marks = {}

\* ---------------------------------------------------------------------
\* One render pass on its own: App::render applied to a state the
\* navigation can leave, with any highlight, on a terminal of any size.

\* The cursors a search result can carry: none on an empty result,
\* otherwise a file, or a hit line of a file.
CursorsOf(files) ==
    IF Keys(files) = {} THEN {DefaultCursor}
    ELSE { [file |-> f, line_number |-> n] :
             <<f, n>> \in { q \in Keys(files) \X ({None} \cup LineNumbers) :
                              q[2] = None \/ q \in DOMAIN AllFound(files) } }

\* The highlights a search can carry for the files it found: none at all,
\* one entry per hit line whose texts occur in the line, or one entry per
\* hit line whose texts do not (the file changed between the two passes).
HighlightsOf(files) ==
    { [p \in {} |-> TRUE],
      AllFound(files),
      [p \in DOMAIN AllFound(files) |-> FALSE] }

PassInit ==
    /\ NoApp
    /\ NoWalk
    /\ NoTerminal
    /\ NoCanvas
    /\ \E t \in SmallTrees :
          \E c \in CursorsOf(t), col \in SUBSET Keys(t),
             h \in HighlightsOf(t), sz \in TerminalSizes :
             call = [state |-> [search_result |-> t, cursor |-> c,
                                collapsed |-> col, dirty |-> TRUE,
                                panicked |-> FALSE],
                     highlight |-> h,
                     size |-> sz]
    /\ ret = << >>

RenderPass ==
    /\ DOMAIN ret = {}
    /\ ret' = render_pass(call.state, call.highlight, call.size)
    /\ UNCHANGED <<appVars, walkVars, termVars, canvasVars, call>>

PassNext == RenderPass

PassSpec == PassInit /\ [][PassNext]_vars

\* C29: a render pass completes without error or panic for an empty
\* result tree, for a terminal with zero rows or zero columns, and for
\* result lines that have no highlight entries.
C29_RenderTotal ==
    (/\ DOMAIN ret # {}
     /\ \/ Keys(call.state.search_result) = {}
        \/ is_empty(call.size)
        \/ DOMAIN call.highlight = {}) =>
        ~ret.state.panicked

\* A pass over a result with hit lines and no highlight entry at all, on
\* a terminal that shows the selected file: the frame was drawn, with the
\* cursor marker, and the rows of the file's hit lines were emitted.
C29_Witness ==
    /\ DOMAIN ret # {}
    /\ DOMAIN call.highlight = {}
    /\ FileLevel(call.state.cursor)
    /\ call.state.collapsed = {}
    /\ ret.drew
    /\ ret.marks # {}
    /\ ret.rows > call.size.rows

\* C30: during a render pass the tree renderer emits no further file or
\* line rows once is_frame_exceeded() holds, so the rows it draws per pass
\* are bounded by the frame's row count whatever the size of the tree: no
\* file or line row is emitted with the canvas cursor past the frame.
C30_StopsWhenExceeded ==
    (DOMAIN ret # {} /\ ret.drew) => ret.late = 0

\* C31: when a matched substring of the highlight pass does not occur in
\* the remaining text of its result line, rendering that line skips the
\* substring silently, without a panic, and goes on.
C31_StaleHighlightSkipped ==
    (/\ DOMAIN ret # {}
     /\ \E p \in DOMAIN call.highlight : ~call.highlight[p]) =>
        ~ret.state.panicked

\* ---------------------------------------------------------------------
\* Token::split_prefix_off at the edges of a token, on texts that may hold
\* zero-width characters.

EdgeTexts == UNION { [1..n -> {"a", "W", "z"}] : n \in 0..MaxTokenLen }

EdgeTokens ==
    { with_style(text, style) : text \in EdgeTexts, style \in TokenStyles }

EdgeInit ==
    /\ NoApp
    /\ NoWalk
    /\ NoTerminal
    /\ NoCanvas
    /\ call \in [token : EdgeTokens, col : 0..(MaxCols + 1)]
    /\ ret = << >>

EdgeNext == SplitPrefixOff

EdgeSpec == EdgeInit /\ [][EdgeNext]_vars

Empty(style) == with_style(<< >>, style)

\* C32: splitting a token at column 0 returns (empty, whole token), and
\* splitting at a column equal to or greater than the token's width
\* returns (whole token, empty).
C32_SplitEdges ==
    DOMAIN ret # {} =>
        /\ call.col = 0 =>
              /\ ret.prefix = Empty(call.token.style)
              /\ ret.rest = call.token
        /\ call.col >= Token_cols(call.token) =>
              /\ ret.prefix = call.token
              /\ ret.rest = Empty(call.token.style)

\* C32 as the code has it: splitting at column 0 returns (empty, whole
\* token); splitting at a column greater than the token's width returns
\* (whole token, empty); splitting at a column equal to the width, other
\* than 0, cuts at the first character boundary at that column, which
\* leaves the zero-width characters the token ends with in the right part
\* and so returns (whole token, empty) only when there are none.
C32_SplitEdgesBoundary ==
    DOMAIN ret # {} =>
        LET text == call.token.text
            width == Token_cols(call.token)
        IN /\ call.col = 0 =>
                 /\ ret.prefix = Empty(call.token.style)
                 /\ ret.rest = call.token
           /\ call.col > width =>
                 /\ ret.prefix = call.token
                 /\ ret.rest = Empty(call.token.style)
           /\ (call.col = width /\ call.col > 0) =>
                 /\ ret.prefix.text \o ret.rest.text = text
                 /\ ret.prefix.style = call.token.style
                 /\ ret.rest.style = call.token.style
                 /\ Token_cols(ret.prefix) = width
                 /\ Width(ret.prefix.text[Len(ret.prefix.text)]) > 0
                 /\ Width(text[Len(text)]) > 0 =>
                       ret.rest = Empty(call.token.style)

\* A token of a wide character split at its width, 2: the left part is
\* the whole token and the right part is empty.
C32_Witness ==
    /\ DOMAIN ret # {}
    /\ call.token.text = <<"W">>
    /\ call.col = 2
    /\ ret.prefix = call.token
    /\ ret.rest.text = << >>

\* ---------------------------------------------------------------------
\* The command editor: CommandEditorWidget over the arguments of the git
\* grep command.  The editor's state is the record `call`.

\* An argument holds up to MaxArgLen characters.
MaxArgLen == 2

\* Characters a key can insert: "a" takes one byte in UTF-8, "E" stands for
\* an alphanumeric character of two bytes (U+00E9).
EditChars == {"a", "E"}

\* char::len_utf8
len_utf8(c) == IF c = "E" THEN 2 ELSE 1

ArgTexts == UNION { [1..n -> EditChars] : n \in 0..MaxArgLen }

\* GrepArg::len: the length of the text in bytes
RECURSIVE len(_)
len(text) ==
    IF text = << >> THEN 0 ELSE len_utf8(Head(text)) + len(Tail(text))

\* str::is_char_boundary: the byte offsets at which a character starts,
\* and the end of the text.
is_char_boundary(text, i) ==
    \E k \in 0..Len(text) : len(SubSeq(text, 1, k)) = i

\* The number of characters in front of the byte offset i, a boundary.
CharsBefore(text, i) ==
    CHOOSE k \in 0..Len(text) : len(SubSeq(text, 1, k)) = i

\* GrepArg::insert: String::insert panics off a character boundary.
insert(text, i, c) ==
    IF ~is_char_boundary(text, i) THEN [panic |-> TRUE, text |-> text]
    ELSE LET k == CharsBefore(text, i)
         IN  [panic |-> FALSE,
              text |-> SubSeq(text, 1, k) \o <<c>>
                           \o SubSeq(text, k + 1, Len(text))]

\* GrepArg::remove: None at or behind the end, String::remove otherwise.
remove(text, i) ==
    IF i >= len(text) THEN [panic |-> FALSE, some |-> FALSE, text |-> text]
    ELSE IF ~is_char_boundary(text, i)
         THEN [panic |-> TRUE, some |-> FALSE, text |-> text]
    ELSE LET k == CharsBefore(text, i)
         IN  [panic |-> FALSE, some |-> TRUE,
              text |-> SubSeq(text, 1, k) \o SubSeq(text, k + 2, Len(text))]

\* GrepArg::next_char: the slice text[i..] panics off a boundary.
next_char(text, i) ==
    IF ~is_char_boundary(text, i)
    THEN [panic |-> TRUE, some |-> FALSE, c |-> "a"]
    ELSE LET k == CharsBefore(text, i)
         IN  IF k = Len(text) THEN [panic |-> FALSE, some |-> FALSE, c |-> "a"]
             ELSE [panic |-> FALSE, some |-> TRUE, c |-> text[k + 1]]

\* GrepArg::prev_char: the slice text[..i] panics off a boundary.
prev_char(text, i) ==
    IF ~is_char_boundary(text, i)
    THEN [panic |-> TRUE, some |-> FALSE, c |-> "a"]
    ELSE LET k == CharsBefore(text, i)
         IN  IF k = 0 THEN [panic |-> FALSE, some |-> FALSE, c |-> "a"]
             ELSE [panic |-> FALSE, some |-> TRUE, c |-> text[k]]

\* Focus: the search result, or one of the arguments being edited.
EditingFocus == {"Pattern", "Path"}

is_editing(focus) == focus \in EditingFocus

\* state.grep.pattern / state.grep.path by kind
ArgText(e, kind) == IF kind = "Pattern" THEN e.pattern ELSE e.path

\* AppState::focused_arg_mut, read
focused_arg(e) == ArgText(e, e.focus)

\* AppState::focused_arg_mut, written
set_focused_text(e, text) ==
    IF e.focus = "Pattern" THEN [e EXCEPT !.pattern = text]
    ELSE [e EXCEPT !.path = text]

Panics(e) == [e EXCEPT !.status = "panic"]

Fails(e) == [e EXCEPT !.status = "err"]

\* CommandEditorWidget::update_cursor_position: slices the focused
\* argument's text at [0..index].
update_cursor_position(e) ==
    IF ~is_editing(e.focus) THEN e
    ELSE IF ~is_char_boundary(focused_arg(e), e.index) THEN Panics(e)
    ELSE [e EXCEPT !.shown = TRUE]

\* A focus change that does not record the argument's text.
handle_focus_change_forget(e) ==
    IF ~is_editing(e.focus) THEN e
    ELSE [update_cursor_position(
              [e EXCEPT !.index = len(focused_arg(e))])
          EXCEPT !.dirty = TRUE]

\* CommandEditorWidget::handle_focus_change
handle_focus_change(e) ==
    IF ~is_editing(e.focus) THEN e
    ELSE [update_cursor_position(
              [e EXCEPT !.original_text = focused_arg(e),
                        !.index = len(focused_arg(e))])
          EXCEPT !.dirty = TRUE]

\* `state.show_terminal_cursor.as_mut().or_fail()?` and the dirty flag
\* that follows it.
MoveCursor(e) == IF e.shown THEN [e EXCEPT !.dirty = TRUE] ELSE Fails(e)

\* The match of CommandEditorWidget::handle_key_event; regrep_ok is the
\* outcome of the external search.
EditorKeys ==
    {"Enter", "Tab", "C-g", "Backspace", "Delete", "Left", "Right",
     "C-a", "C-e"} \cup EditChars

KeyMatch(e, key, regrep_ok) ==
    LET arg == focused_arg(e) IN
    CASE key = "Enter" ->
           IF ~regrep_ok THEN Fails(e)
           ELSE [e EXCEPT !.focus = "SearchResult", !.dirty = TRUE,
                          !.shown = FALSE]
      [] key = "Tab" ->
           IF ~regrep_ok THEN Fails(e) ELSE [e EXCEPT !.dirty = TRUE]
      [] key = "C-g" ->
           LET r == set_focused_text(e, e.original_text)
           IN  IF ~regrep_ok THEN Fails(r)
               ELSE [r EXCEPT !.focus = "SearchResult", !.dirty = TRUE,
                              !.shown = FALSE]
      [] key \in EditChars ->
           LET r == insert(arg, e.index, key)
           IN  IF r.panic THEN Panics(e)
               ELSE MoveCursor([set_focused_text(e, r.text)
                                EXCEPT !.index = e.index + len_utf8(key)])
      [] key = "Backspace" ->
           IF e.index = 0 THEN e
           ELSE LET p == prev_char(arg, e.index)
                IN  IF p.panic THEN Panics(e)
                    ELSE IF ~p.some THEN Fails(e)
                    ELSE LET i == e.index - len_utf8(p.c)
                             r == remove(arg, i)
                         IN  IF r.panic THEN Panics(e)
                             ELSE IF ~r.some
                                  THEN Fails([e EXCEPT !.index = i])
                             ELSE MoveCursor([set_focused_text(e, r.text)
                                              EXCEPT !.index = i])
      [] key = "Delete" ->
           LET r == remove(arg, e.index)
           IN  IF r.panic THEN Panics(e)
               ELSE IF r.some
                    THEN [set_focused_text(e, r.text) EXCEPT !.dirty = TRUE]
               ELSE e
      [] key = "Left" ->
           IF e.index = 0 THEN e
           ELSE LET p == prev_char(arg, e.index)
                IN  IF p.panic THEN Panics(e)
                    ELSE IF ~p.some THEN Fails(e)
                    ELSE MoveCursor(
                             [e EXCEPT !.index = e.index - len_utf8(p.c)])
      [] key = "Right" ->
           LET n == next_char(arg, e.index)
           IN  IF n.panic THEN Panics(e)
               ELSE IF n.some
                    THEN MoveCursor(
                             [e EXCEPT !.index = e.index + len_utf8(n.c)])
               ELSE e
      [] key = "C-a" ->
           IF e.index = 0 THEN e
           ELSE IF ~is_char_boundary(arg, e.index) THEN Panics(e)
           ELSE MoveCursor([e EXCEPT !.index = 0])
      [] key = "C-e" ->
           IF e.index >= len(arg) THEN e
           ELSE IF ~is_char_boundary(arg, e.index) THEN Panics(e)
           ELSE MoveCursor([e EXCEPT !.index = len(e.pattern)])

\* CommandEditorWidget::handle_key_event: the match, then the cursor
\* position when the state is dirty.
CommandEditor_handle_key_event(e, key, regrep_ok) ==
    LET r == [KeyMatch(e, key, regrep_ok) EXCEPT !.key = key]
    IN  IF r.status = "ok" /\ r.dirty THEN update_cursor_position(r) ELSE r

\* The arguments come from the command line; the widget is
\* CommandEditorWidget::default() and the focus is on the search result.
EditorInit ==
    /\ NoApp
    /\ NoWalk
    /\ NoTerminal
    /\ NoCanvas
    /\ \E pattern \in ArgTexts, path \in ArgTexts :
           call = [focus |-> "SearchResult", pattern |-> pattern,
                   path |-> path, original_text |-> << >>, index |-> 0,
                   shown |-> FALSE, dirty |-> FALSE, status |-> "ok",
                   key |-> "none",
                   focused |-> [kind |-> "none", text |-> << >>]]
    /\ ret = << >>

\* A key of the search result sets the focus on an argument
\* (AppState::set_focus) and the editor takes it over; `focused` keeps
\* which argument that was and the text it had.
SetFocus ==
    /\ call.status = "ok"
    /\ call.focus = "SearchResult"
    /\ \E f \in EditingFocus :
           call' = [handle_focus_change([call EXCEPT !.focus = f,
                                                     !.dirty = FALSE])
                    EXCEPT !.key = "focus",
                           !.focused = [kind |-> f, text |-> ArgText(call, f)]]
    /\ UNCHANGED <<appVars, walkVars, termVars, canvasVars, ret>>

\* A key in the editor.  The frame was rendered since the previous key,
\* so the state is clean.  Inserting stops at MaxArgLen characters.
EditorKey ==
    /\ call.status = "ok"
    /\ is_editing(call.focus)
    /\ \E key \in EditorKeys, regrep_ok \in BOOLEAN :
           /\ key \in EditChars => Len(focused_arg(call)) < MaxArgLen
           /\ call' = CommandEditor_handle_key_event(
                          [call EXCEPT !.dirty = FALSE], key, regrep_ok)
    /\ UNCHANGED <<appVars, walkVars, termVars, canvasVars, ret>>

EditorNext == SetFocus \/ EditorKey

EditorSpec == EditorInit /\ [][EditorNext]_vars

\* C33: after cancel (Ctrl-g), the argument that was being edited has
\* exactly the text it had when the focus was set on it, whatever keys
\* were handled in between.
C33_CancelRestores ==
    call.key = "C-g" => ArgText(call, call.focused.kind) = call.focused.text

\* A cancel after an insertion at the end of the argument: the index is
\* left behind the end of the restored text.
C33_Witness ==
    /\ call.key = "C-g"
    /\ call.status = "ok"
    /\ call.focus = "SearchResult"
    /\ call.index > len(ArgText(call, call.focused.kind))

\* C36: while the editor runs, the edit index is at most the byte length
\* of the focused argument's text and lies on a character boundary of it,
\* and no editing key panics.
C36_IndexValid ==
    /\ call.status # "panic"
    /\ (call.status = "ok" /\ is_editing(call.focus)) =>
           /\ call.index <= len(focused_arg(call))
           /\ is_char_boundary(focused_arg(call), call.index)

\* ---------------------------------------------------------------------
\* The keys of the application: App::handle_key_event over the widgets
\* MainWidget and SearchPatternInputWidget.  `call` holds the grep options,
\* the widget on top of the stack, the exit flag, the last key and what
\* the last key's search did.

\* ContextLines::MIN, ContextLines::MAX
ContextLines_MIN == 0
ContextLines_MAX == 9

\* The '+' key is followed up to this many context lines.
MaxContextLines == 10

\* The character keys, and the ones typed into an input widget.
Chars == {"a", "q", "/", "F", "E", "P", "+", "-"}
InputChars == {"a", "q"}

MainKeys == {"/", "F", "E", "P", "+", "-", "Right", "q"}
InputKeys == {"Enter", "Backspace"} \cup InputChars

\* What the external search can do: find nothing, find a hit in one file,
\* or fail.
GitOutcomes ==
    { [ok |-> TRUE, files |-> t] :
        t \in { u \in ReTrees : Cardinality(Keys(u)) <= 1 } }
        \cup { [ok |-> FALSE, files |-> << >>] }

\* The outcomes to tell apart for a key: the keys of SearchKeys are the
\* ones that can search.
SearchKeys == {"F", "E", "P", "+", "-", "Enter"}

OutcomesFor(key) ==
    IF key \in SearchKeys THEN GitOutcomes
    ELSE { [ok |-> TRUE, files |-> << >>] }

\* GrepOptions::default with the context lines' default
GrepOptions_default ==
    [pattern |-> << >>, fixed_strings |-> FALSE, extended_regexp |-> FALSE,
     perl_regexp |-> FALSE, context_lines |-> context_lines]

\* A call that runs the search whatever the pattern.
GrepOptions_call_always(g, outcome) ==
    [ok |-> outcome.ok, ran |-> TRUE, files |-> outcome.files]

\* GrepOptions::call: an empty pattern returns the default result before
\* any thread is spawned; otherwise the search runs.
GrepOptions_call(g, outcome) ==
    IF g.pattern = << >> THEN [ok |-> TRUE, ran |-> FALSE, files |-> << >>]
    ELSE [ok |-> outcome.ok, ran |-> TRUE, files |-> outcome.files]

\* What a handler returns: the application state, the grep options, the
\* handler's Ok(bool) or Err, the widget it asks for, and what the search
\* did.
Handled(s, g) ==
    [state |-> s, grep |-> g, ok |-> TRUE, keep |-> TRUE,
     new_widget |-> FALSE, searched |-> "none"]

\* AppState::regrep as the handlers call it, `?` included.
Searched(s, g, outcome) ==
    LET r == GrepOptions_call(g, outcome)
    IN  IF ~r.ok
        THEN [Handled(s, g) EXCEPT !.ok = FALSE, !.searched = "failed"]
        ELSE [Handled(regrep(s, r.files), g) EXCEPT
                  !.searched = IF r.ran THEN "git" ELSE "skipped"]

\* A flag key that flips whatever the other flags are.
FlagGuard_open(g, key) == TRUE

\* The guards of the match arms 'F', 'E' and 'P'.
FlagGuard(g, key) ==
    CASE key = "F" -> ~(g.perl_regexp \/ g.extended_regexp)
      [] key = "E" -> ~(g.fixed_strings \/ g.perl_regexp)
      [] key = "P" -> ~(g.fixed_strings \/ g.extended_regexp)

\* MainWidget::handle_key_event
MainWidget_handle_key_event(s, g, key, outcome) ==
    CASE key = "/" -> [Handled(s, g) EXCEPT !.new_widget = TRUE]
      [] key = "F" /\ FlagGuard(g, key) ->
           Searched(s, [g EXCEPT !.fixed_strings = ~g.fixed_strings], outcome)
      [] key = "E" /\ FlagGuard(g, key) ->
           Searched(s, [g EXCEPT !.extended_regexp = ~g.extended_regexp],
                    outcome)
      [] key = "P" /\ FlagGuard(g, key) ->
           Searched(s, [g EXCEPT !.perl_regexp = ~g.perl_regexp], outcome)
      [] key = "+" ->
           Searched(s, [g EXCEPT !.context_lines = g.context_lines + 1],
                    outcome)
      [] key = "-" /\ g.context_lines > 0 ->
           Searched(s, [g EXCEPT !.context_lines = g.context_lines - 1],
                    outcome)
      [] key = "Right" -> Handled(cursor_right(s), g)
      [] OTHER -> Handled(s, g)

\* SearchPatternInputWidget::handle_key_event of the Pattern widget
SearchPatternInputWidget_handle_key_event(s, g, key, outcome) ==
    CASE key = "Enter" -> [Searched(s, g, outcome) EXCEPT !.keep = FALSE]
      [] key \in Chars ->
           Handled([s EXCEPT !.dirty = TRUE],
                   [g EXCEPT !.pattern = Append(g.pattern, key)])
      [] key = "Backspace" ->
           Handled([s EXCEPT !.dirty = TRUE],
                   [g EXCEPT !.pattern =
                        SubSeq(g.pattern, 1, Len(g.pattern) - 1)])
      [] OTHER -> Handled(s, g)

\* App::handle_key_event behind the widget's handler, which returned h:
\* an Err is passed on; otherwise the widget is popped or covered, and
\* the frame is rendered when the state is dirty.
Dispatched(a, key, h) ==
    LET top == IF h.new_widget THEN "Input"
               ELSE IF ~h.keep THEN "Main" ELSE a.top
        changed == h.new_widget \/ ~h.keep
        t == IF changed /\ ~h.state.panicked
             THEN [h.state EXCEPT !.dirty = TRUE] ELSE h.state
    IN  IF ~h.ok
        THEN [a EXCEPT !.grep = h.grep, !.key = key, !.ok = FALSE,
                       !.searched = h.searched, !.state = h.state]
        ELSE [a EXCEPT !.grep = h.grep, !.key = key, !.top = top,
                       !.searched = h.searched,
                       !.state = handle_key_event(t)]

\* App::handle_key_event: 'q' and Esc set the exit flag; any other key
\* goes to the widget on top of the stack.
App_handle_key_event(a, s, key, outcome) ==
    IF key \in {"q", "Esc"}
    THEN [a EXCEPT !.exit = TRUE, !.key = key, !.searched = "none",
                   !.state = handle_key_event(s)]
    ELSE Dispatched(a, key,
             IF a.top = "Main"
             THEN MainWidget_handle_key_event(s, a.grep, key, outcome)
             ELSE SearchPatternInputWidget_handle_key_event(
                      s, a.grep, key, outcome))

\* App::new: the default state under a MainWidget.
KeysInit ==
    /\ NoApp
    /\ NoWalk
    /\ NoTerminal
    /\ NoCanvas
    /\ call = [grep |-> GrepOptions_default, top |-> "Main", exit |-> FALSE,
               key |-> "none", searched |-> "none"]
    /\ ret = << >>

\* A key is handled: the application state and `call` take the handler's
\* result; an Err ends App::run with the error.
Pressed(key, outcome) ==
    \E a \in { App_handle_key_event(
                   [grep |-> call.grep, top |-> call.top, exit |-> call.exit,
                    key |-> call.key, searched |-> call.searched,
                    ok |-> TRUE, state |-> State],
                   State, key, outcome) } :
        /\ call' = [grep |-> a.grep, top |-> a.top, exit |-> a.exit,
                    key |-> a.key, searched |-> a.searched]
        /\ ret' = IF a.ok THEN ret ELSE [ok |-> FALSE, error |-> "git"]
        /\ search_result' = a.state.search_result
        /\ cursor' = a.state.cursor
        /\ collapsed' = a.state.collapsed
        /\ dirty' = a.state.dirty
        /\ panicked' = a.state.panicked
        /\ op' = "handle_key_event"
        /\ prev' = [cursor |-> cursor, collapsed |-> collapsed]
        /\ UNCHANGED <<walkVars, termVars, canvasVars>>

\* The loop of App::run goes on.
Looping == Running /\ ~panicked /\ ~call.exit

\* A key while the MainWidget is on top.
KeyMain ==
    /\ Looping
    /\ call.top = "Main"
    /\ \E key \in MainKeys :
          /\ key = "+" => call.grep.context_lines < MaxContextLines
          /\ \E outcome \in OutcomesFor(key) : Pressed(key, outcome)

\* A key while a SearchPatternInputWidget is on top.
KeyInput ==
    /\ Looping
    /\ call.top = "Input"
    /\ \E key \in InputKeys :
          /\ key \in Chars => Len(call.grep.pattern) < MaxArgLen
          /\ \E outcome \in OutcomesFor(key) : Pressed(key, outcome)

KeysNext == KeyMain \/ KeyInput

KeysSpec == KeysInit /\ [][KeysNext]_vars

\* C35: in every state reachable through the key handlers, at most one of
\* the grep flags fixed_strings, extended_regexp and perl_regexp is set.
C35_OneRegexpFlag ==
    Cardinality({ f \in {"fixed_strings", "extended_regexp", "perl_regexp"} :
                    call.grep[f] }) <= 1

\* The key 'F' pressed while perl_regexp is set: it changes nothing.
C35_Witness ==
    /\ call.key = "F"
    /\ call.searched = "none"
    /\ call.grep.perl_regexp
    /\ ~call.grep.fixed_strings

\* C37: in every state reachable through the key handlers, the
\* context-line count stays within [ContextLines::MIN, ContextLines::MAX].
C37_ContextInRange ==
    /\ ContextLines_MIN <= call.grep.context_lines
    /\ call.grep.context_lines <= ContextLines_MAX

\* C38: while a SearchPatternInputWidget is the top widget, a non-control
\* character key appends that character to the field being edited and
\* does not terminate the application.
C38_CharAppended ==
    [][(call.top = "Input" /\ call'.key \in Chars) =>
           /\ call'.grep.pattern = Append(call.grep.pattern, call'.key)
           /\ ~call'.exit]_vars

\* C39: a search with an empty pattern returns the empty result without
\* running git, and the regrep leaves the tree empty and the cursor at
\* its default.
C39_EmptyPattern ==
    (call.searched # "none" /\ call.grep.pattern = << >>) =>
        /\ call.searched = "skipped"
        /\ Running
        /\ ~panicked
        /\ search_result = << >>
        /\ cursor = DefaultCursor

\* Enter on a pattern that was emptied, with the cursor on a line of the
\* previous result.
C39_Witness ==
    /\ call.key = "Enter"
    /\ call.searched = "skipped"
    /\ call.grep.pattern = << >>
    /\ prev.cursor.line_number # None
    /\ cursor = DefaultCursor
    /\ search_result = << >>

\* ---------------------------------------------------------------------
\* The collapsed set across searches, in the navigation model.

\* C40: after any sequence of searches and toggle operations, the
\* collapsed set contains only paths that are files of the current tree.
C40_CollapsedInTree == collapsed \subseteq Keys(search_result)

====
